---- MODULE Spec2Model ----
(***************************************************************************)
(* The native messaging bridge of chrome_tab_native_host.py: one stdio     *)
(* read loop (main thread), one handler thread per accepted TCP            *)
(* connection, the shared state they race on, and the two peers (the       *)
(* extension on stdin/stdout, the TCP clients) as the environment.         *)
(***************************************************************************)
EXTENDS Integers, Sequences, FiniteSets, TLC

\* ---------------------------------------------------------------- bounds
\* Number of TCP connections the listener accepts in a run.
NumClients == 2
\* Number of frames the extension writes to stdin in a run.
MaxFrames == 2
\* Number of lines the TCP clients send in a run, all connections together.
MaxLines == 2
\* Number of clock ticks that make up the 60 s request timeout.
TimeoutTicks == 1
\* Number of frames written to the pipe in a run of send_message / read_message.
MaxSent == 2

Handlers == 1..NumClients
\* The request ids a run can allocate: at most one per line.
Ids == 1..MaxLines

\* ---------------------------------------------------------------- state
VARIABLES
    REQUIRE_AUTH,         \* --require-auth
    extension_connected,  \* global flag
    pending_requests,     \* request_id -> the handler whose response_queue list it holds
    request_counter,      \* global id counter
    request_lock,         \* 0 when free, else the handler holding it
    response_queue,       \* handler -> content of its current response_queue list
    stdout,               \* chunks written to sys.stdout.buffer, in order
    mainPc,               \* position of the main thread
    message,              \* extension_message_loop's current message
    frames,               \* frames the extension has written so far
    pc,                   \* handler -> position in handle_mcp_client
    auth_line,            \* handler -> first line its client sends
    message_data,         \* handler -> the request line it has read last
    request,              \* handler -> parsed request
    request_id,           \* handler -> local request_id
    elapsed,              \* handler -> ticks since start_time
    response,             \* handler -> local response
    sock,                 \* handler -> what was written to its client socket, in order
    lines,                \* handler -> lines read from its client
    peerOpen,             \* handler -> its client holds its end of the connection open
    byteorder,            \* sys.byteorder of the host, which struct's '=' follows
    framePc,              \* position of a run of send_message / read_message on one pipe
    sent,                 \* the messages given to send_message, in order
    pipe,                 \* the bytes in the pipe, in order
    eof,                  \* the writer has closed the pipe
    consumed,             \* number of bytes read_message has taken from the pipe
    received,             \* what the calls of read_message returned, in order
    written,              \* the response lines written to TCP clients, in order
    data,                 \* handler -> the bytes of the request line received so far
    blocked,              \* handler -> time since it began to read the line it is reading
    call,                 \* one call of extract_tab_content_via_extension (MCP server)
    http,                 \* the request the HTTP server handled last, and what it did
    handshake,            \* one client that sends its lines at once, and the handler it meets
    files,                \* the manifest of the native host and its backup, on disk
    listener              \* socket_server_thread: before bind, listening, or returned

vars == << REQUIRE_AUTH, extension_connected, pending_requests, request_counter,
           request_lock, response_queue, stdout, mainPc, message, frames,
           pc, auth_line, message_data, request, request_id, elapsed, response, sock, lines,
           peerOpen, byteorder, framePc, sent, pipe, eof, consumed, received,
           listener, written, data, blocked, call, http, handshake,
           files >>

shared == << extension_connected, pending_requests, request_counter, request_lock,
             response_queue, stdout >>
mainVars == << mainPc, message, frames >>
handlerVars == << pc, auth_line, message_data, request, request_id, elapsed, response, sock, lines,
                  peerOpen >>
readVars == << data, blocked >>
serverVars == << call, http, handshake, files >>
frameVars == << byteorder, framePc, sent, pipe, eof, consumed, received, written >>

NoMessage == [kind |-> "none", ridKind |-> "absent", rid |-> 0, seq |-> 0]
NoRequest == [kind |-> "none", client |-> 0, n |-> 0, request_id |-> 0]
\* No call of extract_tab_content_via_extension has begun.
NoCall == [pc |-> "idle", line |-> << >>, response_data |-> << >>, failure |-> "none",
           result |-> [status |-> "none", error |-> "", response |-> << >>]]
\* The HTTP server has handled no request.
NoHttp == [method |-> "", path |-> "", auth_header |-> << >>, body |-> "", status |-> "",
           ran |-> ""]
\* No client of the handshake has connected.
NoHandshake == [pc |-> "idle", client |-> "idle", token |-> << >>, wire |-> << >>,
                auth_line |-> << >>, data |-> << >>, out |-> << >>, first |-> << >>]
\* A file that does not exist.
Absent == [exists |-> FALSE, allowed_origins |-> << >>, text |-> ""]
\* A manifest file: the allowed_origins it lists, in order, and who wrote its
\* text: the installer, or json.dump(manifest, f, indent=2).
ManifestFile(origins, text) == [exists |-> TRUE, allowed_origins |-> origins, text |-> text]
\* The manifests a test run may find at get_manifest_path(): none, or the one
\* the user installed, with no origin, with the user's extension, or with the
\* user's and the test extension.
InstalledManifests ==
    {Absent} \cup { ManifestFile(o, "installed") : o \in { << >>, << "u" >>, << "u", "t" >> } }
\* Nothing of the disk has been looked at; there is no backup file. before is
\* the manifest a run found, calls says where the sequence of its calls is.
NoFiles == [manifest |-> Absent, backup |-> Absent, backup_path_to_restore |-> FALSE,
            before |-> Absent, calls |-> "unknown"]
NoResponse == [kind |-> "none", error |-> "", msg |-> NoMessage]

\* ------------------------------------------------- authenticate_tcp_client
\* A line is a sequence of one-character strings; "BAD" stands for a byte
\* that is not valid UTF-8.
Whitespace == {" ", "\r", "\t"}
VALID_TOKENS == { <<"a">>, <<"b">> }
AUTH == <<"A", "U", "T", "H", " ">>

ValidUtf8(s) == \A i \in 1..Len(s) : s[i] # "BAD"

RECURSIVE LStrip(_)
LStrip(s) == IF s # <<>> /\ Head(s) \in Whitespace THEN LStrip(Tail(s)) ELSE s

RECURSIVE RStrip(_)
RStrip(s) ==
    IF s # <<>> /\ s[Len(s)] \in Whitespace THEN RStrip(SubSeq(s, 1, Len(s) - 1)) ELSE s

\* str.strip()
Strip(s) == RStrip(LStrip(s))

\* str.startswith(p)
StartsWith(s, p) == Len(s) >= Len(p) /\ SubSeq(s, 1, Len(p)) = p

\* A slice that starts one character early: auth_str[4:]
TokenOfShort(auth_str) == SubSeq(auth_str, 5, Len(auth_str))

\* auth_str[5:]
TokenOf(auth_str) == SubSeq(auth_str, 6, Len(auth_str))

\* A handshake check that looks at the AUTH prefix only.
authenticate_prefix_only(line) ==
    IF ~REQUIRE_AUTH THEN TRUE
    ELSE ValidUtf8(line) /\ StartsWith(Strip(line), AUTH)

\* The result of authenticate_tcp_client when the client's first line is `line`.
authenticate_tcp_client(line) ==
    IF ~REQUIRE_AUTH THEN TRUE
    ELSE IF ~ValidUtf8(line) THEN FALSE
    ELSE LET auth_str == Strip(line) IN
         IF ~StartsWith(auth_str, AUTH) THEN FALSE
         ELSE TokenOf(auth_str) \in VALID_TOKENS

\* First lines a client may send: every shape of line around the AUTH
\* handshake.
AuthLines ==
    { AUTH \o <<"a">>, AUTH \o <<"b">>, AUTH \o <<"c">>, AUTH \o <<"a", "b">>,
      <<" ">> \o AUTH \o <<"a">>, AUTH \o <<"a", " ">>, AUTH \o <<"b", "\r">>,
      <<"x">> \o AUTH \o <<"a">>, AUTH \o <<"a", "x">>, AUTH \o <<" ", "a">>,
      <<"A", "U", "T", "H">>, AUTH, <<"A", "U", "T", "H", "a">>,
      <<"a", "u", "t", "h", " ", "a">>, <<"a">>, <<>>,
      AUTH \o <<"a", "BAD">> }

\* First lines of the clients of the bridge's runs: a handshake with
\* surrounding whitespace, a wrong token, a line that is no handshake, and no
\* line at all.
FirstLines == { <<" ">> \o AUTH \o <<"b", "\r">>, AUTH \o <<"c">>, <<"a">>, << >> }

\* ---------------------------------------------------------------- messages
\* Frames the extension may write as its n-th frame. kind is what the payload
\* is: bytes that are no JSON, the JSON value null, a JSON value that is no
\* object (array, number, string), or an object. ridKind and rid give the
\* object's request_id field: "absent" (no such field, or null), "int" (the
\* integer rid; also a float or boolean equal to it), "str" (a string) or
\* "list" (a non-empty array or object, which is unhashable in Python).
ExtFrames(n) ==
    { [kind |-> k, ridKind |-> "absent", rid |-> 0, seq |-> n] :
        k \in {"badjson", "null", "nonobject"} }
    \cup { [kind |-> "object", ridKind |-> k, rid |-> 0, seq |-> n] :
        k \in {"absent", "str", "list"} }
    \cup { [kind |-> "object", ridKind |-> "int", rid |-> r, seq |-> n] :
        r \in 0..(MaxLines + 1) }

\* Lines a TCP client may send after the handshake: a JSON object, bytes that
\* decode but are no JSON, bytes that are no UTF-8, a JSON value that is no object.
LineKinds == {"object", "badjson", "badutf8", "nonobject"}

\* The request_id a client puts in its request object: none (0), or a number
\* of its own choice.
SuppliedIds == {0, 2}

ErrorResponse(e) == [kind |-> "error", error |-> e, msg |-> NoMessage]
MessageResponse(m) == [kind |-> "message", error |-> "", msg |-> m]

\* The error responses handle_mcp_client builds itself.
AuthError == ErrorResponse("Authentication required")
InvalidJsonError == ErrorResponse("Invalid JSON")
NotConnectedError == ErrorResponse("Extension not connected")
TimeoutError == ErrorResponse("Timeout waiting for extension response")

\* One chunk written to sys.stdout.buffer: the 4-byte length prefix of the
\* encoded message, or the encoded message itself.
Chunk(part, m) == [part |-> part, of |-> m]

\* ---------------------------------------------------------------- Init
\* The bridge after main() has parsed its arguments, before its threads run.
BridgeInit ==
    /\ REQUIRE_AUTH \in BOOLEAN
    /\ extension_connected = FALSE
    /\ pending_requests = << >>
    /\ request_counter = 0
    /\ request_lock = 0
    /\ response_queue = [h \in Handlers |-> << >>]
    /\ stdout = << >>
    /\ mainPc = "start"
    /\ message = NoMessage
    /\ frames = 0
    /\ pc = [h \in Handlers |-> "idle"]
    /\ auth_line = [h \in Handlers |-> << >>]
    /\ message_data = [h \in Handlers |-> NoRequest]
    /\ request = [h \in Handlers |-> NoRequest]
    /\ request_id = [h \in Handlers |-> 0]
    /\ elapsed = [h \in Handlers |-> 0]
    /\ response = [h \in Handlers |-> NoResponse]
    /\ sock = [h \in Handlers |-> << >>]
    /\ lines = [h \in Handlers |-> 0]
    /\ peerOpen = [h \in Handlers |-> FALSE]
    /\ listener = "starting"
    /\ data = [h \in Handlers |-> << >>]
    /\ blocked = [h \in Handlers |-> 0]
    /\ call = NoCall
    /\ http = NoHttp
    /\ handshake = NoHandshake
    /\ files = NoFiles

\* The runs of the bridge take the frames whole: they do not look at the
\* bytes of a frame.
FrameOff ==
    /\ byteorder = "native"
    /\ framePc = "off"
    /\ sent = << >>
    /\ pipe = << >>
    /\ eof = FALSE
    /\ consumed = 0
    /\ received = << >>
    /\ written = << >>

Init == BridgeInit /\ FrameOff

\* ------------------------------------------------ extension_message_loop
EndOfFile == [kind |-> "eof", ridKind |-> "absent", rid |-> 0, seq |-> 0]

\* read_message: None (NoMessage) at end of file and when json.loads raises
\* ValueError; otherwise what json.loads returns, None for the JSON value null.
read_message(input) ==
    IF input.kind \in {"eof", "badjson"} THEN NoMessage
    ELSE IF input.kind = "null" THEN NoMessage
    ELSE input

\* Truth value of message.get('request_id').
Truthy(m) == m.ridKind \in {"str", "list"} \/ (m.ridKind = "int" /\ m.rid # 0)

\* request_id in pending_requests, for a hashable request_id.
InPending(m) == m.ridKind = "int" /\ m.rid \in DOMAIN pending_requests

\* A lookup that ignores the key: the list of some pending request.
SlotOfAny(m) == pending_requests[CHOOSE i \in DOMAIN pending_requests : TRUE]

\* The list pending_requests[request_id], named by the handler that created it.
SlotOf(m) == pending_requests[m.rid]

\* The except clause of extension_message_loop, entered with exception e.
LoopCrash(e) ==
    /\ e \in {"AttributeError", "TypeError", "KeyError"}
    /\ extension_connected' = FALSE
    /\ mainPc' = "stopped"
    /\ message' = NoMessage

\* An entry to the loop that leaves the flag as it is.
LoopEnterSilent ==
    /\ mainPc = "start"
    /\ mainPc' = "read"
    /\ UNCHANGED << serverVars, REQUIRE_AUTH, extension_connected, pending_requests,
                    request_counter, request_lock, response_queue, stdout, message, frames >>
    /\ UNCHANGED handlerVars
    /\ UNCHANGED frameVars
    /\ UNCHANGED listener
    /\ UNCHANGED readVars

\* extension_connected = True on entry to the loop.
LoopEnter ==
    /\ mainPc = "start"
    /\ extension_connected' = TRUE
    /\ mainPc' = "read"
    /\ UNCHANGED << serverVars, REQUIRE_AUTH, pending_requests, request_counter, request_lock,
                    response_queue, stdout, message, frames >>
    /\ UNCHANGED handlerVars
    /\ UNCHANGED frameVars
    /\ UNCHANGED listener
    /\ UNCHANGED readVars

\* One read_message() and the test that follows it.
LoopHandle(input) ==
    LET m == read_message(input) IN
    IF m = NoMessage THEN
        /\ extension_connected' = FALSE
        /\ mainPc' = "stopped"
        /\ UNCHANGED message
    ELSE IF m.kind = "nonobject" THEN LoopCrash("AttributeError")
    ELSE IF ~Truthy(m) THEN UNCHANGED << extension_connected, mainPc, message >>
    ELSE IF m.ridKind = "list" THEN LoopCrash("TypeError")
    ELSE IF InPending(m) THEN
        /\ mainPc' = "append"
        /\ message' = m
        /\ UNCHANGED extension_connected
    ELSE UNCHANGED << extension_connected, mainPc, message >>

\* The extension writes `input` as its next frame and the loop reads it.
LoopReadFrame(input) ==
    /\ mainPc = "read"
    /\ frames < MaxFrames
    /\ LoopHandle(input)
    /\ frames' = frames + 1
    /\ UNCHANGED << serverVars, REQUIRE_AUTH, pending_requests, request_counter, request_lock,
                    response_queue, stdout >>
    /\ UNCHANGED handlerVars
    /\ UNCHANGED frameVars
    /\ UNCHANGED listener
    /\ UNCHANGED readVars

LoopRead == \E input \in ExtFrames(frames + 1) : LoopReadFrame(input)

\* The browser closes stdin.
LoopEOF ==
    /\ mainPc = "read"
    /\ LoopHandle(EndOfFile)
    /\ UNCHANGED << serverVars, REQUIRE_AUTH, pending_requests, request_counter, request_lock,
                    response_queue, stdout, frames >>
    /\ UNCHANGED handlerVars
    /\ UNCHANGED frameVars
    /\ UNCHANGED listener
    /\ UNCHANGED readVars

\* pending_requests[request_id].append(message)
LoopAppend ==
    /\ mainPc = "append"
    /\ IF InPending(message) THEN
           /\ response_queue' = [response_queue EXCEPT ![SlotOf(message)] = Append(@, message)]
           /\ mainPc' = "read"
           /\ message' = NoMessage
           /\ UNCHANGED extension_connected
       ELSE
           /\ LoopCrash("KeyError")
           /\ UNCHANGED response_queue
    /\ UNCHANGED << serverVars, REQUIRE_AUTH, pending_requests, request_counter, request_lock,
                    stdout, frames >>
    /\ UNCHANGED handlerVars
    /\ UNCHANGED frameVars
    /\ UNCHANGED listener
    /\ UNCHANGED readVars

\* A main() that runs the read loop again when it has ended.
MainRestart ==
    /\ mainPc = "stopped"
    /\ mainPc' = "start"
    /\ UNCHANGED << serverVars, REQUIRE_AUTH, shared, message, frames >>
    /\ UNCHANGED handlerVars
    /\ UNCHANGED frameVars
    /\ UNCHANGED listener
    /\ UNCHANGED readVars

\* main() returns after the loop and the process exits: the daemon threads
\* stop where they are and the memory of the process is gone. What the peers
\* hold stays: the bytes written to stdout and to the client sockets.
MainExit ==
    /\ mainPc = "stopped"
    /\ mainPc' = "exited"
    /\ pc' = [h \in Handlers |-> IF pc[h] \in {"idle", "closed"} THEN pc[h] ELSE "killed"]
    /\ pending_requests' = << >>
    /\ request_lock' = 0
    /\ response_queue' = [h \in Handlers |-> << >>]
    /\ request' = [h \in Handlers |-> NoRequest]
    /\ request_id' = [h \in Handlers |-> 0]
    /\ elapsed' = [h \in Handlers |-> 0]
    /\ response' = [h \in Handlers |-> NoResponse]
    /\ UNCHANGED << serverVars, REQUIRE_AUTH, extension_connected, request_counter, stdout, message,
                    frames, auth_line, message_data, sock, lines, peerOpen >>
    /\ UNCHANGED frameVars
    /\ UNCHANGED listener
    /\ UNCHANGED readVars

Running == mainPc # "exited"

\* ------------------------------------------------------ handle_mcp_client
\* Outcomes of client_socket.sendall: it succeeds while the peer is open and
\* raises OSError once the peer has closed. (A send the kernel still accepts
\* after the close is the run in which the peer closes right after the send.)
SendOutcomes(h) == {peerOpen[h]}

\* The except and finally clauses of handle_mcp_client: an error response is
\* sent if the socket still takes it, and the socket is closed.
Raise(h, e) ==
    /\ \E ok \in SendOutcomes(h) :
           sock' = [sock EXCEPT ![h] = IF ok THEN Append(@, ErrorResponse(e)) ELSE @]
    /\ pc' = [pc EXCEPT ![h] = "closed"]

\* client_socket.sendall(r) at a place where no OSError is caught locally.
SendOrRaise(h, r, next) ==
    \E ok \in SendOutcomes(h) :
        IF ok THEN /\ sock' = [sock EXCEPT ![h] = Append(@, r)]
                   /\ pc' = [pc EXCEPT ![h] = next]
        ELSE Raise(h, "OSError")

\* socket_server_thread: server.bind and server.listen. They succeed, or bind
\* raises OSError, for a port in use or for another reason; on either error
\* the thread logs and returns.
Bind(result) ==
    /\ Running
    /\ listener = "starting"
    /\ result \in {"listening", "in_use", "failed"}
    /\ listener' = result
    /\ UNCHANGED << serverVars, REQUIRE_AUTH, shared, mainVars, handlerVars, frameVars >>
    /\ UNCHANGED readVars

\* A listener that accepts whether or not it is bound.
ListeningAlways == TRUE

\* The accept loop is reached only after bind and listen succeeded.
Listening == listener = "listening"

\* socket_server_thread accepts the next connection and starts its handler
\* thread, which authenticates the client: the client has sent its first
\* line, one of `choices`, and on a failed handshake the handler sends the
\* error (unless the peer is gone by then) and returns.
AcceptWith(h, choices) ==
    /\ Running
    /\ Listening
    /\ pc[h] = "idle"
    /\ \A g \in Handlers : g < h => pc[g] # "idle"
    /\ \E line \in (IF REQUIRE_AUTH THEN choices ELSE { << >> }) :
        /\ auth_line' = [auth_line EXCEPT ![h] = line]
        /\ IF authenticate_tcp_client(line)
           THEN /\ pc' = [pc EXCEPT ![h] = "read"]
                /\ peerOpen' = [peerOpen EXCEPT ![h] = TRUE]
                /\ UNCHANGED sock
           ELSE /\ pc' = [pc EXCEPT ![h] = "closed"]
                /\ \E open \in BOOLEAN :
                    /\ peerOpen' = [peerOpen EXCEPT ![h] = open]
                    /\ sock' = [sock EXCEPT ![h] =
                           IF open THEN Append(@, AuthError)
                           ELSE @]
    /\ UNCHANGED << message_data, request, request_id, elapsed, response, lines >>
    /\ UNCHANGED << serverVars, REQUIRE_AUTH, mainPc, message, frames >>
    /\ UNCHANGED shared
    /\ UNCHANGED frameVars
    /\ UNCHANGED listener
    /\ UNCHANGED readVars

Accept(h) == AcceptWith(h, FirstLines)

\* A connection check that always passes.
ConnectedAlways == TRUE

\* if not extension_connected: (the test)
Connected == extension_connected

RECURSIVE LinesUpTo(_)
LinesUpTo(h) == IF h = 0 THEN 0 ELSE lines[h] + LinesUpTo(h - 1)
\* Lines read so far, all connections together.
TotalLines == LinesUpTo(NumClients)

\* A handler that also reads while it waits for the extension.
AtLoopTopOrWaiting(h) == pc[h] \in {"read", "wait"}

\* The handler thread is at the top of its `while True:` loop, about to
\* receive the next line; it gets there only from the end of the loop body.
AtLoopTop(h) == pc[h] = "read"

\* One pass of the request loop up to the connection check: read a line,
\* parse it, log request.get('action'), test extension_connected.
ReadLine(h, kind, supplied) ==
    /\ Running
    /\ AtLoopTop(h)
    /\ TotalLines < MaxLines
    /\ kind # "object" => supplied = 0
    /\ lines' = [lines EXCEPT ![h] = @ + 1]
    /\ message_data' = [message_data EXCEPT ![h] =
           [kind |-> kind, client |-> h, n |-> lines[h] + 1, request_id |-> supplied]]
    /\ CASE kind = "badjson" ->
              /\ SendOrRaise(h, InvalidJsonError, "read")
              /\ UNCHANGED request
         [] kind = "badutf8" ->
              /\ Raise(h, "UnicodeDecodeError")
              /\ UNCHANGED request
         [] kind = "nonobject" ->
              /\ Raise(h, "AttributeError")
              /\ UNCHANGED request
         [] kind = "object" ->
              IF ~Connected
              THEN /\ SendOrRaise(h, NotConnectedError, "read")
                   /\ UNCHANGED request
              ELSE /\ peerOpen[h]
                   /\ pc' = [pc EXCEPT ![h] = "lock"]
                   /\ request' = [request EXCEPT ![h] = message_data'[h]]
                   /\ UNCHANGED sock
    /\ UNCHANGED << auth_line, request_id, elapsed, response, peerOpen >>
    /\ UNCHANGED << serverVars, REQUIRE_AUTH, mainPc, message, frames >>
    /\ UNCHANGED shared
    /\ UNCHANGED frameVars
    /\ UNCHANGED listener
    /\ UNCHANGED readVars

\* recv returns b'' once the peer has closed: the handler returns.
ReadEOF(h) ==
    /\ Running
    /\ pc[h] = "read"
    /\ ~peerOpen[h]
    /\ pc' = [pc EXCEPT ![h] = "closed"]
    /\ UNCHANGED << auth_line, message_data, request, request_id, elapsed, response, sock, lines,
                    peerOpen >>
    /\ UNCHANGED << serverVars, REQUIRE_AUTH, mainPc, message, frames >>
    /\ UNCHANGED shared
    /\ UNCHANGED frameVars
    /\ UNCHANGED listener
    /\ UNCHANGED readVars

\* The TCP client closes its end of the connection. The handler notices it
\* in its next recv or sendall only, so the step is taken right before one.
PeerClose(h) ==
    /\ Running
    /\ pc[h] \in {"read", "cleanup"}
    /\ peerOpen[h]
    /\ peerOpen' = [peerOpen EXCEPT ![h] = FALSE]
    /\ UNCHANGED << pc, auth_line, message_data, request, request_id, elapsed, response, sock, lines >>
    /\ UNCHANGED << serverVars, REQUIRE_AUTH, mainPc, message, frames >>
    /\ UNCHANGED shared
    /\ UNCHANGED frameVars
    /\ UNCHANGED listener
    /\ UNCHANGED readVars

\* The increment without the lock.
AcquireNoLock(h) ==
    /\ Running
    /\ pc[h] = "lock"
    /\ request_counter' = request_counter + 1
    /\ pc' = [pc EXCEPT ![h] = "getid"]
    /\ UNCHANGED << extension_connected, pending_requests, request_lock, response_queue,
                    stdout >>
    /\ UNCHANGED << auth_line, message_data, request, request_id, elapsed, response, sock, lines,
                    peerOpen >>
    /\ UNCHANGED << serverVars, REQUIRE_AUTH, mainPc, message, frames >>
    /\ UNCHANGED frameVars
    /\ UNCHANGED listener
    /\ UNCHANGED readVars

\* An allocation that counts the request twice.
AcquireTwice(h) ==
    /\ Running
    /\ pc[h] = "lock"
    /\ request_lock = 0
    /\ request_lock' = h
    /\ request_counter' = request_counter + 2
    /\ pc' = [pc EXCEPT ![h] = "getid"]
    /\ UNCHANGED << extension_connected, pending_requests, response_queue, stdout >>
    /\ UNCHANGED << auth_line, message_data, request, request_id, elapsed, response, sock, lines,
                    peerOpen >>
    /\ UNCHANGED << serverVars, REQUIRE_AUTH, mainPc, message, frames >>
    /\ UNCHANGED frameVars
    /\ UNCHANGED listener
    /\ UNCHANGED readVars

\* with request_lock: request_counter += 1
Acquire(h) ==
    /\ Running
    /\ pc[h] = "lock"
    /\ request_lock = 0
    /\ request_lock' = h
    /\ request_counter' = request_counter + 1
    /\ pc' = [pc EXCEPT ![h] = "getid"]
    /\ UNCHANGED << extension_connected, pending_requests, response_queue, stdout >>
    /\ UNCHANGED << auth_line, message_data, request, request_id, elapsed, response, sock, lines,
                    peerOpen >>
    /\ UNCHANGED << serverVars, REQUIRE_AUTH, mainPc, message, frames >>
    /\ UNCHANGED frameVars
    /\ UNCHANGED listener
    /\ UNCHANGED readVars

\* A handler that keeps the lock while it forwards and waits.
LockAfterGetIdKept(h) == request_lock

\* Leaving the `with request_lock:` block releases the lock.
LockAfterGetId(h) == IF request_lock = h THEN 0 ELSE request_lock

\* request_id = request_counter, the lock is released, and the id is put
\* into the request.
\* An injection that keeps the request_id of the client when there is one.
InjectIfAbsent(req, id) == IF req.request_id = 0 THEN [req EXCEPT !.request_id = id] ELSE req

\* request['request_id'] = request_id
Inject(req, id) == [req EXCEPT !.request_id = id]

GetId(h) ==
    /\ Running
    /\ pc[h] = "getid"
    /\ request_id' = [request_id EXCEPT ![h] = request_counter]
    /\ request' = [request EXCEPT ![h] = Inject(@, request_counter)]
    /\ request_lock' = LockAfterGetId(h)
    /\ pc' = [pc EXCEPT ![h] = "register"]
    /\ UNCHANGED << extension_connected, pending_requests, request_counter,
                    response_queue, stdout >>
    /\ UNCHANGED << auth_line, message_data, elapsed, response, sock, lines, peerOpen >>
    /\ UNCHANGED << serverVars, REQUIRE_AUTH, mainPc, message, frames >>
    /\ UNCHANGED frameVars
    /\ UNCHANGED listener
    /\ UNCHANGED readVars

\* response_queue = []; pending_requests[request_id] = response_queue
Register(h) ==
    /\ Running
    /\ pc[h] = "register"
    /\ response_queue' = [response_queue EXCEPT ![h] = << >>]
    /\ pending_requests' =
           [i \in DOMAIN pending_requests \cup {request_id[h]} |->
               IF i = request_id[h] THEN h ELSE pending_requests[i]]
    /\ pc' = [pc EXCEPT ![h] = "send_length"]
    /\ UNCHANGED << extension_connected, request_counter, request_lock, stdout >>
    /\ UNCHANGED << auth_line, message_data, request, request_id, elapsed, response, sock, lines,
                    peerOpen >>
    /\ UNCHANGED << serverVars, REQUIRE_AUTH, mainPc, message, frames >>
    /\ UNCHANGED frameVars
    /\ UNCHANGED listener
    /\ UNCHANGED readVars

\* send_message: sys.stdout.buffer.write(struct.pack('=I', message_length))
SendLength(h) ==
    /\ Running
    /\ pc[h] = "send_length"
    /\ stdout' = Append(stdout, Chunk("length", request[h]))
    /\ pc' = [pc EXCEPT ![h] = "send_payload"]
    /\ UNCHANGED << extension_connected, pending_requests, request_counter,
                    request_lock, response_queue >>
    /\ UNCHANGED << auth_line, message_data, request, request_id, elapsed, response, sock, lines,
                    peerOpen >>
    /\ UNCHANGED << serverVars, REQUIRE_AUTH, mainPc, message, frames >>
    /\ UNCHANGED frameVars
    /\ UNCHANGED listener
    /\ UNCHANGED readVars

\* send_message: sys.stdout.buffer.write(encoded_message) and flush;
\* then start_time = time.time().
SendPayload(h) ==
    /\ Running
    /\ pc[h] = "send_payload"
    /\ stdout' = Append(stdout, Chunk("payload", request[h]))
    /\ pc' = [pc EXCEPT ![h] = "wait"]
    /\ elapsed' = [elapsed EXCEPT ![h] = 0]
    /\ UNCHANGED << extension_connected, pending_requests, request_counter,
                    request_lock, response_queue >>
    /\ UNCHANGED << auth_line, message_data, request, request_id, response, sock, lines, peerOpen >>
    /\ UNCHANGED << serverVars, REQUIRE_AUTH, mainPc, message, frames >>
    /\ UNCHANGED frameVars
    /\ UNCHANGED listener
    /\ UNCHANGED readVars

\* Time passes while the handler is in its wait loop.
Tick(h) ==
    /\ Running
    /\ pc[h] = "wait"
    /\ elapsed[h] < TimeoutTicks
    /\ elapsed' = [elapsed EXCEPT ![h] = @ + 1]
    /\ UNCHANGED << pc, auth_line, message_data, request, request_id, response, sock, lines, peerOpen >>
    /\ UNCHANGED << serverVars, REQUIRE_AUTH, mainPc, message, frames >>
    /\ UNCHANGED shared
    /\ UNCHANGED frameVars
    /\ UNCHANGED listener
    /\ UNCHANGED readVars

\* A wait loop that gives up one tick early.
TimeLeftShort(h) == elapsed[h] < TimeoutTicks - 1

\* time.time() - start_time < timeout
TimeLeft(h) == elapsed[h] < TimeoutTicks

\* Taking the newest element of the list: response_queue[-1]
LastResponse(h) == response_queue[h][Len(response_queue[h])]

\* response = response_queue[0]
FirstResponse(h) == response_queue[h][1]

\* One test of the wait loop that leaves it: the queue holds a response while
\* time is left, or no time is left (the else clause). A test that finds the
\* queue empty with time left sleeps and changes nothing.
Poll(h) ==
    /\ Running
    /\ pc[h] = "wait"
    /\ IF TimeLeft(h)
       THEN /\ response_queue[h] # << >>
            /\ response' = [response EXCEPT ![h] = MessageResponse(FirstResponse(h))]
       ELSE response' = [response EXCEPT ![h] = TimeoutError]
    /\ pc' = [pc EXCEPT ![h] = "cleanup"]
    /\ UNCHANGED << auth_line, message_data, request, request_id, elapsed, sock, lines, peerOpen >>
    /\ UNCHANGED << serverVars, REQUIRE_AUTH, mainPc, message, frames >>
    /\ UNCHANGED shared
    /\ UNCHANGED frameVars
    /\ UNCHANGED listener
    /\ UNCHANGED readVars

\* A cleanup that removes the entries of the other handlers and keeps its own.
RemovedOthers(h) ==
    [i \in { j \in DOMAIN pending_requests : pending_requests[j] = h } |-> pending_requests[i]]

\* A cleanup that empties the table: pending_requests.clear()
RemovedAll(h) == << >>

\* A cleanup that leaves the table as it is.
RemovedNothing(h) == pending_requests

\* if request_id in pending_requests: del pending_requests[request_id]
Removed(h) ==
    [i \in DOMAIN pending_requests \ {request_id[h]} |-> pending_requests[i]]

\* Clean up, then send the response back; an OSError makes the handler return.
Finish(h) ==
    /\ Running
    /\ pc[h] = "cleanup"
    /\ pending_requests' = Removed(h)
    /\ \E ok \in SendOutcomes(h) :
           IF ok THEN /\ sock' = [sock EXCEPT ![h] = Append(@, response[h])]
                      /\ pc' = [pc EXCEPT ![h] = "read"]
           ELSE /\ pc' = [pc EXCEPT ![h] = "closed"]
                /\ UNCHANGED sock
    /\ request' = [request EXCEPT ![h] = NoRequest]
    /\ request_id' = [request_id EXCEPT ![h] = 0]
    /\ elapsed' = [elapsed EXCEPT ![h] = 0]
    /\ response' = [response EXCEPT ![h] = NoResponse]
    /\ UNCHANGED << extension_connected, request_counter, request_lock,
                    response_queue, stdout >>
    /\ UNCHANGED << auth_line, message_data, lines, peerOpen >>
    /\ UNCHANGED << serverVars, REQUIRE_AUTH, mainPc, message, frames >>
    /\ UNCHANGED frameVars
    /\ UNCHANGED listener
    /\ UNCHANGED readVars

\* ---------------------------------------------------------------- Next
Next ==
    \/ LoopEnter
    \/ LoopRead
    \/ LoopEOF
    \/ LoopAppend
    \/ MainExit
    \/ \E result \in {"listening", "in_use", "failed"} : Bind(result)
    \/ \E h \in Handlers : Accept(h)
    \/ \E h \in Handlers : \E kind \in LineKinds : \E supplied \in SuppliedIds :
           ReadLine(h, kind, supplied)
    \/ \E h \in Handlers : ReadEOF(h)
    \/ \E h \in Handlers : PeerClose(h)
    \/ \E h \in Handlers : Acquire(h)
    \/ \E h \in Handlers : GetId(h)
    \/ \E h \in Handlers : Register(h)
    \/ \E h \in Handlers : SendLength(h)
    \/ \E h \in Handlers : SendPayload(h)
    \/ \E h \in Handlers : Tick(h)
    \/ \E h \in Handlers : Poll(h)
    \/ \E h \in Handlers : Finish(h)

Spec == Init /\ [][Next]_vars

\* The threads of the handlers keep being scheduled and the clock keeps
\* running: a handler in its wait loop sees time pass, tests its queue again
\* and, once out of the loop, goes on to clean up and respond.
Fairness ==
    \A h \in Handlers :
        WF_vars(Tick(h)) /\ WF_vars(Poll(h)) /\ WF_vars(Finish(h))

LiveSpec == Init /\ [][Next]_vars /\ Fairness

\* ------------------------------------------ send_message and read_message
\* The bytes of the frames. A string is a sequence of code points, a byte
\* string a sequence of numbers below 256. The characters that occur:
Ord ==
    (" " :> 32) @@ ("\"" :> 34) @@ ("," :> 44) @@ (":" :> 58) @@ ("\\" :> 92)
    @@ ("0" :> 48) @@ ("1" :> 49) @@ ("2" :> 50) @@ ("3" :> 51) @@ ("4" :> 52)
    @@ ("5" :> 53) @@ ("6" :> 54) @@ ("7" :> 55) @@ ("8" :> 56) @@ ("9" :> 57)
    @@ ("a" :> 97) @@ ("b" :> 98) @@ ("c" :> 99) @@ ("d" :> 100) @@ ("e" :> 101)
    @@ ("f" :> 102) @@ ("i" :> 105) @@ ("n" :> 110) @@ ("o" :> 111) @@ ("q" :> 113) @@ ("r" :> 114)
    @@ ("s" :> 115) @@ ("t" :> 116) @@ ("u" :> 117) @@ ("x" :> 120) @@ ("_" :> 95)
    @@ ("{" :> 123) @@ ("}" :> 125) @@ ("é" :> 233) @@ ("\n" :> 10)
    @@ ("A" :> 65) @@ ("U" :> 85) @@ ("T" :> 84) @@ ("H" :> 72)

\* The string with the characters s[1], s[2], ...
Str(s) == [i \in 1..Len(s) |-> Ord[s[i]]]

RECURSIVE Concat(_)
\* b''.join(parts)
Concat(parts) == IF parts = << >> THEN << >> ELSE Head(parts) \o Concat(Tail(parts))

\* A message is a JSON object: the sequence of its members in the order of
\* the dict, each a key with an integer or a string as its value.
IntField(key, n) == [key |-> key, t |-> "int", n |-> n, s |-> << >>]
StrField(key, s) == [key |-> key, t |-> "str", n |-> 0, s |-> s]

RECURSIVE Digits(_)
\* str(n) for an integer n >= 0
Digits(n) == IF n < 10 THEN << 48 + n >> ELSE Digits(n \div 10) \o << 48 + (n % 10) >>

HexDigit(d) == IF d < 10 THEN 48 + d ELSE 87 + d
\* '{0:04x}'.format(cp)
Hex4(cp) ==
    << HexDigit((cp \div 4096) % 16), HexDigit((cp \div 256) % 16),
       HexDigit((cp \div 16) % 16), HexDigit(cp % 16) >>

\* An encoder that leaves the control characters as they are.
EscapeCharPrintable(cp) ==
    IF cp = 34 \/ cp = 92 THEN << 92, cp >>
    ELSE IF cp > 127 THEN << 92, 117 >> \o Hex4(cp)
    ELSE << cp >>

\* json.dumps of one character of a string, ensure_ascii on: the quote and
\* the backslash get a backslash, the control characters become \n, \r, \t,
\* \b, \f or \u00XX, and a character outside ASCII becomes \uXXXX.
EscapeChar(cp) ==
    IF cp = 34 \/ cp = 92 THEN << 92, cp >>
    ELSE IF cp = 10 THEN << 92, 110 >>
    ELSE IF cp = 13 THEN << 92, 114 >>
    ELSE IF cp = 9 THEN << 92, 116 >>
    ELSE IF cp = 8 THEN << 92, 98 >>
    ELSE IF cp = 12 THEN << 92, 102 >>
    ELSE IF cp < 32 \/ cp > 127 THEN << 92, 117 >> \o Hex4(cp)
    ELSE << cp >>

\* json.dumps of a string
DumpStr(s) == << 34 >> \o Concat([i \in 1..Len(s) |-> EscapeChar(s[i])]) \o << 34 >>

\* json.dumps of one member: "key": value
DumpField(f) ==
    DumpStr(f.key) \o << 58, 32 >> \o (IF f.t = "int" THEN Digits(f.n) ELSE DumpStr(f.s))

\* json.dumps(message), with the default separators ', ' and ': '
json_dumps(m) ==
    << 123 >>
    \o Concat([i \in 1..Len(m) |->
                  (IF i > 1 THEN << 44, 32 >> ELSE << >>) \o DumpField(m[i])])
    \o << 125 >>

\* str.encode('utf-8') of one code point below 2048
Utf8Char(cp) == IF cp < 128 THEN << cp >> ELSE << 192 + (cp \div 64), 128 + (cp % 64) >>
\* str.encode('utf-8')
Utf8Encode(s) == Concat([i \in 1..Len(s) |-> Utf8Char(s[i])])

\* struct.pack('=I', n): four bytes, unsigned, in the byte order of the host
pack(n) ==
    LET le == << n % 256, (n \div 256) % 256, (n \div 65536) % 256,
                 (n \div 16777216) % 256 >>
    IN  IF byteorder = "big" THEN << le[4], le[3], le[2], le[1] >> ELSE le

\* An unpack in network byte order, whatever the host: struct.unpack('>I', raw)[0]
unpack_network(raw) == raw[4] + 256 * raw[3] + 65536 * raw[2] + 16777216 * raw[1]

\* struct.unpack('=I', raw)[0]
unpack(raw) ==
    IF byteorder = "big"
    THEN raw[4] + 256 * raw[3] + 65536 * raw[2] + 16777216 * raw[1]
    ELSE raw[1] + 256 * raw[2] + 65536 * raw[3] + 16777216 * raw[4]

\* bytes.decode('utf-8'): the code points, or no result where the decoder
\* raises UnicodeDecodeError (a ValueError). Code points below 2048.
RECURSIVE Utf8From(_, _, _)
Utf8From(b, i, acc) ==
    IF i > Len(b) THEN [ok |-> TRUE, s |-> acc]
    ELSE IF b[i] < 128 THEN Utf8From(b, i + 1, Append(acc, b[i]))
    ELSE IF /\ b[i] \in 194..223
            /\ i < Len(b)
            /\ b[i + 1] \in 128..191
         THEN Utf8From(b, i + 2, Append(acc, (b[i] - 192) * 64 + (b[i + 1] - 128)))
    ELSE [ok |-> FALSE, s |-> << >>]

Utf8Decode(b) == Utf8From(b, 1, << >>)

\* The JSON decoder on a text t, from position i on. Every parser returns
\* ok, the position after what it took, and what it took.
RECURSIVE SkipWs(_, _)
SkipWs(t, i) == IF i <= Len(t) /\ t[i] \in {32, 9, 10, 13} THEN SkipWs(t, i + 1) ELSE i

HexValue(c) ==
    IF c \in 48..57 THEN c - 48
    ELSE IF c \in 97..102 THEN c - 87
    ELSE 16

\* The four hex digits of a \uXXXX escape at t[i..i+3]: the code point, or 65536.
ParseHex4(t, i) ==
    IF i + 3 > Len(t) \/ \E k \in 0..3 : HexValue(t[i + k]) = 16 THEN 65536
    ELSE 4096 * HexValue(t[i]) + 256 * HexValue(t[i + 1])
         + 16 * HexValue(t[i + 2]) + HexValue(t[i + 3])

ParseFail == [ok |-> FALSE, pos |-> 0, s |-> << >>, n |-> 0, t |-> "none"]

RECURSIVE ParseChars(_, _, _)
\* The characters of a string up to its closing quote.
ParseChars(t, i, acc) ==
    IF i > Len(t) THEN ParseFail
    ELSE IF t[i] = 34 THEN [ok |-> TRUE, pos |-> i + 1, s |-> acc, n |-> 0, t |-> "str"]
    ELSE IF t[i] = 92 THEN
        IF i = Len(t) THEN ParseFail
        ELSE IF t[i + 1] \in {34, 92, 47} THEN ParseChars(t, i + 2, Append(acc, t[i + 1]))
        ELSE IF t[i + 1] = 110 THEN ParseChars(t, i + 2, Append(acc, 10))
        ELSE IF t[i + 1] = 114 THEN ParseChars(t, i + 2, Append(acc, 13))
        ELSE IF t[i + 1] = 116 THEN ParseChars(t, i + 2, Append(acc, 9))
        ELSE IF t[i + 1] = 98 THEN ParseChars(t, i + 2, Append(acc, 8))
        ELSE IF t[i + 1] = 102 THEN ParseChars(t, i + 2, Append(acc, 12))
        ELSE IF t[i + 1] = 117 /\ ParseHex4(t, i + 2) < 65536
             THEN ParseChars(t, i + 6, Append(acc, ParseHex4(t, i + 2)))
        ELSE ParseFail
    ELSE IF t[i] < 32 THEN ParseFail
    ELSE ParseChars(t, i + 1, Append(acc, t[i]))

ParseString(t, i) ==
    IF i <= Len(t) /\ t[i] = 34 THEN ParseChars(t, i + 1, << >>) ELSE ParseFail

RECURSIVE ParseDigits(_, _, _)
ParseDigits(t, i, acc) ==
    IF i <= Len(t) /\ t[i] \in 48..57 THEN ParseDigits(t, i + 1, 10 * acc + (t[i] - 48))
    ELSE [ok |-> TRUE, pos |-> i, s |-> << >>, n |-> acc, t |-> "int"]

\* An integer: 0, or a digit that is not 0 followed by digits.
ParseInt(t, i) ==
    IF i > Len(t) \/ t[i] \notin 48..57 THEN ParseFail
    ELSE IF t[i] = 48 THEN [ok |-> TRUE, pos |-> i + 1, s |-> << >>, n |-> 0, t |-> "int"]
    ELSE ParseDigits(t, i, 0)

\* A value: a string or an integer.
ParseValue(t, i) ==
    IF i <= Len(t) /\ t[i] = 34 THEN ParseString(t, i) ELSE ParseInt(t, i)

\* dict[key] = value: a key that is there keeps its place and gets the value.
Put(m, f) ==
    IF \E k \in 1..Len(m) : m[k].key = f.key
    THEN [k \in 1..Len(m) |-> IF m[k].key = f.key THEN f ELSE m[k]]
    ELSE Append(m, f)

RECURSIVE ParseMembers(_, _, _)
\* The members of an object from the first key on, up to the closing brace.
ParseMembers(t, i, acc) ==
    LET key == ParseString(t, i) IN
    IF ~key.ok THEN [ok |-> FALSE, pos |-> 0, m |-> << >>]
    ELSE LET c == SkipWs(t, key.pos) IN
         IF c > Len(t) \/ t[c] # 58 THEN [ok |-> FALSE, pos |-> 0, m |-> << >>]
         ELSE LET val == ParseValue(t, SkipWs(t, c + 1)) IN
              IF ~val.ok THEN [ok |-> FALSE, pos |-> 0, m |-> << >>]
              ELSE LET f == [key |-> key.s, t |-> val.t, n |-> val.n, s |-> val.s]
                       e == SkipWs(t, val.pos)
                   IN  IF e > Len(t) THEN [ok |-> FALSE, pos |-> 0, m |-> << >>]
                       ELSE IF t[e] = 125
                            THEN [ok |-> TRUE, pos |-> e + 1, m |-> Put(acc, f)]
                       ELSE IF t[e] = 44
                            THEN ParseMembers(t, SkipWs(t, e + 1), Put(acc, f))
                       ELSE [ok |-> FALSE, pos |-> 0, m |-> << >>]

\* An object.
ParseObject(t, i) ==
    IF i > Len(t) \/ t[i] # 123 THEN [ok |-> FALSE, pos |-> 0, m |-> << >>]
    ELSE LET j == SkipWs(t, i + 1) IN
         IF j <= Len(t) /\ t[j] = 125 THEN [ok |-> TRUE, pos |-> j + 1, m |-> << >>]
         ELSE ParseMembers(t, j, << >>)

\* json.loads(message_bytes.decode('utf-8')) for a text that is an object
\* or no JSON at all: the message, or no result where a ValueError is raised
\* (by the decoding, by the parser, or for data after the object).
json_loads(b) ==
    LET text == Utf8Decode(b) IN
    IF ~text.ok THEN [ok |-> FALSE, m |-> << >>]
    ELSE LET obj == ParseObject(text.s, SkipWs(text.s, 1)) IN
         IF obj.ok /\ SkipWs(text.s, obj.pos) > Len(text.s)
         THEN [ok |-> TRUE, m |-> obj.m]
         ELSE [ok |-> FALSE, m |-> << >>]

\* send_message(message): the bytes it writes to sys.stdout.buffer, the
\* length of the encoded message packed in four bytes and then the encoded
\* message.
send_message(m) ==
    LET encoded_message == Utf8Encode(json_dumps(m))
        message_length == Len(encoded_message)
    IN  pack(message_length) \o encoded_message

\* chunk_size = 1024 * 1024, at the scale of the messages of the model.
chunk_size == 16

Min(a, b) == IF a < b THEN a ELSE b

RECURSIVE ReadChunks(_, _, _, _)
\* The while loop of read_message: `remaining` bytes are still to come, pos
\* bytes of `avail` are taken; a read returns the bytes asked for, or the
\* fewer that come before the end of the stream.
ReadChunks(avail, pos, remaining, message_bytes) ==
    IF remaining = 0 THEN [ok |-> TRUE, pos |-> pos, bytes |-> message_bytes]
    ELSE LET to_read == Min(chunk_size, remaining)
             chunk == SubSeq(avail, pos + 1, Min(pos + to_read, Len(avail)))
         IN  IF chunk = << >> THEN [ok |-> FALSE, pos |-> pos, bytes |-> message_bytes]
             ELSE ReadChunks(avail, pos + Len(chunk), remaining - Len(chunk),
                             message_bytes \o chunk)

NoFrame(taken) == [kind |-> "none", m |-> << >>, taken |-> taken]

\* A read_message that reads the payload with one read and parses what came.
read_message_one_read(avail) ==
    LET raw_length == SubSeq(avail, 1, Min(4, Len(avail))) IN
    IF Len(raw_length) # 4 THEN NoFrame(Len(raw_length))
    ELSE LET message_length == unpack(raw_length)
             last == Min(4 + message_length, Len(avail))
             parsed == json_loads(SubSeq(avail, 5, last))
         IN  IF parsed.ok THEN [kind |-> "message", m |-> parsed.m, taken |-> last]
             ELSE NoFrame(last)

\* read_message() on a stdin that holds the bytes `avail` and then ends:
\* what it returns (a message, or None) and how many bytes it took.
read_message_bytes(avail) ==
    LET raw_length == SubSeq(avail, 1, Min(4, Len(avail))) IN
    IF Len(raw_length) # 4 THEN NoFrame(Len(raw_length))
    ELSE LET message_length == unpack(raw_length)
             body == ReadChunks(avail, 4, message_length, << >>)
         IN  IF ~body.ok \/ Len(body.bytes) # message_length THEN NoFrame(body.pos)
             ELSE LET parsed == json_loads(body.bytes) IN
                  IF parsed.ok
                  THEN [kind |-> "message", m |-> parsed.m, taken |-> body.pos]
                  ELSE NoFrame(body.pos)

\* A writer that leaves out the line feed.
write_line_bare(m) == Utf8Encode(json_dumps(m))

\* client_socket.sendall((json.dumps(response) + '\n').encode('utf-8')): the
\* bytes of the line a handler writes for the response it took.
write_line(m) == Utf8Encode(json_dumps(m) \o Str(<< "\n" >>))

\* newline_pos = data.index(b'\n'); message_data = data[:newline_pos]
read_line(b) ==
    SubSeq(b, 1, (CHOOSE i \in 1..Len(b) : b[i] = 10 /\ \A j \in 1..(i - 1) : b[j] # 10) - 1)

\* The messages given to send_message: objects with none, one or both of
\* the members "a" (a string) and "id" (an integer), and one message whose
\* encoding is longer than one chunk.
StrValues == { << >>, Str(<<"x">>), Str(<<"é", "\"">>), Str(<<"\\">>) }
IntValues == { 0, 7, 120 }
LongString == [i \in 1..40 |-> 120]
Messages ==
    { << >>, << StrField(Str(<<"a">>), LongString) >> }
    \cup { << StrField(Str(<<"a">>), s) >> : s \in StrValues }
    \cup { << IntField(Str(<<"i", "d">>), n) >> : n \in IntValues }
    \cup { << StrField(Str(<<"a">>), s), IntField(Str(<<"i", "d">>), n) >> :
             s \in StrValues, n \in IntValues }

\* Payloads the extension may frame itself: JSON with the characters as they
\* are (UTF-8) and no space, JSON with spaces, JSON that breaks off, an answer
\* with a request_id and a line feed (escaped) in a string, JSON with line
\* feeds between its tokens, bytes that are no UTF-8, and no bytes.
PeerPayloads ==
    { Utf8Encode(Str(<<"{", "\"", "a", "\"", ":", "\"", "é", "\"", "}">>)),
      Utf8Encode(Str(<<" ", "{", " ", "\"", "i", "d", "\"", " ", ":", " ", "7", " ", "}", " ">>)),
      Utf8Encode(Str(<<"{", "\"", "a", "\"">>)),
      Utf8Encode(Str(<<"{", "\"", "r", "e", "q", "u", "e", "s", "t", "_", "i", "d", "\"",
                       ":", "7", ",", "\"", "a", "\"", ":", "\"", "\\", "n", "\"", "}">>)),
      Utf8Encode(Str(<<"{", "\n", "\"", "a", "\"", ":", "\"", "x", "\"", "}", "\n">>)),
      << 123, 255, 125 >>,
      << >> }

\* One frame written to the pipe: who wrote it, the message (of send_message)
\* and the bytes.
SentBy(by, m, bytes) == [by |-> by, m |-> m, bytes |-> bytes]

\* The bytes of the pipe that read_message has not taken yet.
Available == SubSeq(pipe, consumed + 1, Len(pipe))

\* A read of the pipe returns: the frame at its head is complete, or the pipe
\* has ended.
CanRead ==
    \/ eof
    \/ /\ Len(Available) >= 4
       /\ Len(Available) - 4 >= unpack(SubSeq(Available, 1, 4))

\* A host of either byte order runs send_message and read_message on one pipe.
InitFrame ==
    /\ BridgeInit
    /\ ~REQUIRE_AUTH
    /\ byteorder \in {"little", "big"}
    /\ framePc = "run"
    /\ sent = << >>
    /\ pipe = << >>
    /\ eof = FALSE
    /\ consumed = 0
    /\ received = << >>
    /\ written = << >>

\* send_message(m) writes its frame to the pipe.
FrameSend(m) ==
    /\ framePc = "run"
    /\ ~eof
    /\ Len(sent) < MaxSent
    /\ sent' = Append(sent, SentBy("send_message", m, send_message(m)))
    /\ pipe' = pipe \o send_message(m)
    /\ UNCHANGED << byteorder, framePc, eof, consumed, received, written >>
    /\ UNCHANGED << serverVars, REQUIRE_AUTH, shared, mainVars, handlerVars >>
    /\ UNCHANGED listener
    /\ UNCHANGED readVars

\* The extension writes a frame of its own making: the length of the payload
\* in the byte order of the host, then the payload.
FramePeerWrite(payload) ==
    /\ framePc = "run"
    /\ ~eof
    /\ Len(sent) < MaxSent
    /\ sent' = Append(sent, SentBy("peer", << >>, pack(Len(payload)) \o payload))
    /\ pipe' = pipe \o pack(Len(payload)) \o payload
    /\ UNCHANGED << byteorder, framePc, eof, consumed, received, written >>
    /\ UNCHANGED << serverVars, REQUIRE_AUTH, shared, mainVars, handlerVars >>
    /\ UNCHANGED listener
    /\ UNCHANGED readVars

\* The writer's end of the pipe is closed when only the first k bytes of
\* what was written have gone through.
FrameCut(k) ==
    /\ framePc = "run"
    /\ ~eof
    /\ k \in consumed..Len(pipe)
    /\ pipe' = SubSeq(pipe, 1, k)
    /\ eof' = TRUE
    /\ UNCHANGED << byteorder, framePc, sent, consumed, received, written >>
    /\ UNCHANGED << serverVars, REQUIRE_AUTH, shared, mainVars, handlerVars >>
    /\ UNCHANGED listener
    /\ UNCHANGED readVars

\* One call of read_message(); after None the caller reads no more.
FrameRead ==
    /\ framePc = "run"
    /\ CanRead
    /\ LET result == read_message_bytes(Available) IN
        /\ received' = Append(received, [kind |-> result.kind, m |-> result.m,
                                          from |-> consumed, taken |-> result.taken])
        /\ consumed' = consumed + result.taken
        /\ framePc' = IF result.kind = "none" THEN "done" ELSE "run"
    /\ UNCHANGED << byteorder, sent, pipe, eof, written >>
    /\ UNCHANGED << serverVars, REQUIRE_AUTH, shared, mainVars, handlerVars >>
    /\ UNCHANGED listener
    /\ UNCHANGED readVars

\* A handler writes the message read_message returned in the i-th call, the
\* response to its request, to its client. Requests are answered in the order
\* of their responses or not at all.
FrameRespond(i) ==
    /\ framePc # "off"
    /\ i \in 1..Len(received)
    /\ received[i].kind = "message"
    /\ \A k \in 1..Len(written) : written[k].of < i
    /\ written' = Append(written, [of |-> i, bytes |-> write_line(received[i].m)])
    /\ UNCHANGED << byteorder, framePc, sent, pipe, eof, consumed, received >>
    /\ UNCHANGED << serverVars, REQUIRE_AUTH, shared, mainVars, handlerVars >>
    /\ UNCHANGED listener
    /\ UNCHANGED readVars

NextFrame ==
    \/ \E i \in 1..Len(received) : FrameRespond(i)
    \/ \E m \in Messages : FrameSend(m)
    \/ \E payload \in PeerPayloads : FramePeerWrite(payload)
    \/ \E k \in 0..Len(pipe) : FrameCut(k)
    \/ FrameRead

SpecFrame == InitFrame /\ [][NextFrame]_vars

\* The threads of the process keep being scheduled, whatever the peers do:
\* the main thread enters the read loop and routes the message it holds, and
\* a handler that can take the
\* lock, register, write, test its queue or respond does so. Nothing is
\* assumed of the TCP clients, of the extension or of the clock: a client may
\* never connect, never send a line, and a response may never come.
ThreadFairness ==
    /\ WF_vars(LoopEnter)
    /\ WF_vars(LoopAppend)
    /\ \A h \in Handlers :
          /\ WF_vars(Acquire(h)) /\ WF_vars(GetId(h)) /\ WF_vars(Register(h))
          /\ WF_vars(SendLength(h)) /\ WF_vars(SendPayload(h))
          /\ WF_vars(Poll(h)) /\ WF_vars(Finish(h))

StallSpec == Init /\ [][Next]_vars /\ ThreadFairness

\* ------------------------------------------------- the reads of the socket
\* The two loops that read a line from a client, recv by recv: the one of
\* authenticate_tcp_client (recv(1)) and the one of handle_mcp_client
\* (recv(4096)). What the handler does with a request line is left out here.
MaxData == 2

\* The characters a client may send next in its first line.
NextAuthChars(h) ==
    { l[Len(auth_line[h]) + 1] :
        l \in { f \in FirstLines : /\ Len(f) > Len(auth_line[h])
                                   /\ SubSeq(f, 1, Len(auth_line[h])) = auth_line[h] } }
    \cup { "\n" }

\* What one recv(4096) may return of the request lines a client sends.
RequestChunks == { << "{" >>, << "}", "\n" >>, << "{", "}", "\n", "{" >> }

\* server.accept() and the start of the handler thread.
Connect(h) ==
    /\ Running
    /\ Listening
    /\ pc[h] = "idle"
    /\ \A g \in Handlers : g < h => pc[g] # "idle"
    /\ pc' = [pc EXCEPT ![h] = IF REQUIRE_AUTH THEN "auth" ELSE "read"]
    /\ peerOpen' = [peerOpen EXCEPT ![h] = TRUE]
    /\ UNCHANGED << auth_line, message_data, request, request_id, elapsed, response, sock,
                    lines >>
    /\ UNCHANGED << serverVars, REQUIRE_AUTH, shared, mainVars, frameVars, listener, readVars >>

\* The end of authenticate_tcp_client and what handle_mcp_client does with
\* its result.
AuthDone(h) ==
    IF authenticate_tcp_client(auth_line[h])
    THEN /\ pc' = [pc EXCEPT ![h] = "read"]
         /\ UNCHANGED sock
    ELSE /\ pc' = [pc EXCEPT ![h] = "closed"]
         /\ sock' = [sock EXCEPT ![h] = IF peerOpen[h] THEN Append(@, AuthError) ELSE @]

\* chunk = client_socket.recv(1) returns the character c.
AuthRecv(h, c) ==
    /\ Running
    /\ pc[h] = "auth"
    /\ peerOpen[h]
    /\ c \in NextAuthChars(h)
    /\ IF c = "\n"
       THEN /\ AuthDone(h)
            /\ blocked' = [blocked EXCEPT ![h] = 0]
            /\ UNCHANGED auth_line
       ELSE /\ auth_line' = [auth_line EXCEPT ![h] = Append(@, c)]
            /\ UNCHANGED << pc, sock, blocked >>
    /\ UNCHANGED << message_data, request, request_id, elapsed, response, lines, peerOpen >>
    /\ UNCHANGED << serverVars, REQUIRE_AUTH, shared, mainVars, frameVars, listener, data >>

\* chunk = client_socket.recv(1) returns b'': the client has closed.
AuthEOF(h) ==
    /\ Running
    /\ pc[h] = "auth"
    /\ ~peerOpen[h]
    /\ AuthDone(h)
    /\ blocked' = [blocked EXCEPT ![h] = 0]
    /\ UNCHANGED << auth_line, message_data, request, request_id, elapsed, response, lines,
                    peerOpen >>
    /\ UNCHANGED << serverVars, REQUIRE_AUTH, shared, mainVars, frameVars, listener, data >>

\* chunk = client_socket.recv(4096) returns bytes; data += chunk; with a line
\* feed in data the line is complete, what follows it is dropped, and the
\* handler comes back for the next line.
RecvChunk(h, chunk) ==
    /\ Running
    /\ pc[h] = "read"
    /\ peerOpen[h]
    /\ Len(data[h]) < MaxData
    /\ TotalLines < MaxLines
    /\ LET all == data[h] \o chunk IN
       IF \E i \in 1..Len(all) : all[i] = "\n"
       THEN /\ data' = [data EXCEPT ![h] = << >>]
            /\ lines' = [lines EXCEPT ![h] = @ + 1]
            /\ blocked' = [blocked EXCEPT ![h] = 0]
       ELSE /\ data' = [data EXCEPT ![h] = all]
            /\ UNCHANGED << lines, blocked >>
    /\ UNCHANGED << pc, auth_line, message_data, request, request_id, elapsed, response,
                    sock, peerOpen >>
    /\ UNCHANGED << serverVars, REQUIRE_AUTH, shared, mainVars, frameVars, listener >>

\* The client closes while the handler reads its first line or a request line.
ReadPeerClose(h) ==
    /\ Running
    /\ pc[h] \in {"auth", "read"}
    /\ peerOpen[h]
    /\ peerOpen' = [peerOpen EXCEPT ![h] = FALSE]
    /\ UNCHANGED << pc, auth_line, message_data, request, request_id, elapsed, response,
                    sock, lines >>
    /\ UNCHANGED << serverVars, REQUIRE_AUTH, shared, mainVars, frameVars, listener, readVars >>

\* Time passes and the client sends nothing: the sockets that accept()
\* returns are blocking and no timeout is ever set on them, so the handler
\* stays in recv.
RecvBlock(h) ==
    /\ Running
    /\ pc[h] \in {"auth", "read"}
    /\ peerOpen[h]
    /\ blocked[h] <= TimeoutTicks
    /\ blocked' = [blocked EXCEPT ![h] = @ + 1]
    /\ UNCHANGED << serverVars, REQUIRE_AUTH, shared, mainVars, handlerVars, frameVars, listener, data >>

NextRead ==
    \/ \E result \in {"listening", "in_use", "failed"} : Bind(result)
    \/ \E h \in Handlers : Connect(h)
    \/ \E h \in Handlers : \E c \in NextAuthChars(h) : AuthRecv(h, c)
    \/ \E h \in Handlers : AuthEOF(h)
    \/ \E h \in Handlers : \E chunk \in RequestChunks : RecvChunk(h, chunk)
    \/ \E h \in Handlers : ReadEOF(h)
    \/ \E h \in Handlers : ReadPeerClose(h)
    \/ \E h \in Handlers : RecvBlock(h)

SpecRead == Init /\ [][NextRead]_vars

\* ------------------------------------- extract_tab_content_via_extension
\* The client of the bridge in chrome_tab_mcp_server.py: one call, from the
\* connect to the value it returns. An exception raised inside the function
\* is a value here, given to the except clause that catches it.
Content == Str(<<"c", "o", "n", "t", "e", "n", "t">>)
StatusKey == Str(<<"s", "t", "a", "t", "u", "s">>)

\* Response objects the bridge may write: with a content string (a line feed
\* in it), without content, with a content that is a number, and empty.
ClientResponses ==
    { << StrField(StatusKey, Str(<<"x">>)), StrField(Content, Str(<<"x", "\n">>)) >>,
      << StrField(StatusKey, Str(<<"x">>)) >>,
      << StrField(StatusKey, Str(<<"x">>)), IntField(Content, 7) >>,
      << >> }

\* What the bridge writes before it closes or goes silent: one of the
\* responses, or another message, as a line, JSON that breaks off, bytes that are no UTF-8, an
\* empty line, an object without its line feed, and nothing.
BridgeLines ==
    { write_line(m) : m \in ClientResponses \cup Messages }
    \cup { << 123, 10 >>, << 255, 10 >>, << 10 >>, << 123, 125 >>, << >> }

\* The dict the function builds itself.
ErrorResult(e) == [status |-> "error", error |-> e, response |-> << >>]
\* The parsed response, returned as it is.
Returned(m) == [status |-> "returned", error |-> "", response |-> m]

RECURSIVE StripLeft(_)
StripLeft(b) == IF b # << >> /\ Head(b) \in {32, 9, 10, 11, 12, 13} THEN StripLeft(Tail(b)) ELSE b
RECURSIVE StripRight(_)
StripRight(b) ==
    IF b # << >> /\ b[Len(b)] \in {32, 9, 10, 11, 12, 13}
    THEN StripRight(SubSeq(b, 1, Len(b) - 1)) ELSE b
\* response_data.decode('utf-8').strip(), on the bytes
StripBytes(b) == StripRight(StripLeft(b))

\* response.get('content', '')
ContentOf(m) ==
    IF \E k \in 1..Len(m) : m[k].key = Content
    THEN m[CHOOSE k \in 1..Len(m) : m[k].key = Content]
    ELSE StrField(Content, << >>)

\* A log line that does not look at the response.
LogRaisesNever(m) == FALSE

\* logger.info(f"... content_length={len(response.get('content', ''))}"):
\* len() of a number raises TypeError.
LogRaises(m) == ContentOf(m).t = "int"

\* From `sock.close()` to the return: the empty response, json.loads, the
\* log line and the except clause for what they raise.
ParseResponse(response_data) ==
    IF response_data = << >> THEN ErrorResult("No response from native messaging bridge")
    ELSE LET parsed == json_loads(StripBytes(response_data)) IN
         IF ~parsed.ok THEN ErrorResult("Error communicating with extension")
         ELSE IF LogRaises(parsed.m) THEN ErrorResult("Error communicating with extension")
         ELSE Returned(parsed.m)

\* sock.connect((BRIDGE_HOST, BRIDGE_PORT)) and its two except clauses. The
\* line is what the bridge is going to write on this connection.
ClientConnect(outcome, line) ==
    /\ call.pc = "idle"
    /\ outcome \in {"ok", "refused", "timeout", "oserror"}
    /\ outcome # "ok" => line = << >>
    /\ call' =
         IF outcome = "ok" THEN [call EXCEPT !.pc = "send", !.line = line]
         ELSE [call EXCEPT !.pc = "done", !.failure = outcome,
                           !.result = IF outcome = "refused"
                                      THEN ErrorResult("Native messaging bridge is not running")
                                      ELSE ErrorResult("Failed to connect to native messaging bridge")]
    /\ UNCHANGED << REQUIRE_AUTH, shared, mainVars, handlerVars, frameVars, listener,
                    readVars, http, handshake, files >>

\* The two sendall calls: the AUTH line when a token is configured, and the
\* request line.
ClientSend(outcome) ==
    /\ call.pc = "send"
    /\ outcome \in {"ok", "timeout", "oserror"}
    /\ call' =
         IF outcome = "ok" THEN [call EXCEPT !.pc = "recv"]
         ELSE [call EXCEPT !.pc = "done", !.failure = outcome,
                           !.result = IF outcome = "timeout"
                                      THEN ErrorResult("Timeout waiting for extension response")
                                      ELSE ErrorResult("Error communicating with extension")]
    /\ UNCHANGED << REQUIRE_AUTH, shared, mainVars, handlerVars, frameVars, listener,
                    readVars, http, handshake, files >>

\* What the bridge has still to write.
Rest == SubSeq(call.line, Len(call.response_data) + 1, Len(call.line))

\* One sock.recv(4096): it returns the next k bytes, or b'' when the bridge
\* has closed, or it raises socket.timeout or another OSError; with a line
\* feed in response_data, or on b'', the loop ends and the function returns.
ClientRecv(outcome, k) ==
    /\ call.pc = "recv"
    /\ outcome \in {"data", "closed", "timeout", "oserror"}
    /\ IF outcome = "data" THEN k \in 1..Len(Rest) ELSE k = 0
    /\ outcome = "closed" => Rest = << >>
    /\ call' =
         CASE outcome = "data" ->
                LET response_data == call.response_data \o SubSeq(Rest, 1, k) IN
                IF \E i \in 1..Len(response_data) : response_data[i] = 10
                THEN [call EXCEPT !.pc = "done", !.response_data = response_data,
                                  !.result = ParseResponse(response_data)]
                ELSE [call EXCEPT !.response_data = response_data]
           [] outcome = "closed" ->
                [call EXCEPT !.pc = "done", !.result = ParseResponse(call.response_data)]
           [] outcome = "timeout" ->
                [call EXCEPT !.pc = "done", !.failure = outcome,
                             !.result = ErrorResult("Timeout waiting for extension response")]
           [] outcome = "oserror" ->
                [call EXCEPT !.pc = "done", !.failure = outcome,
                             !.result = ErrorResult("Error communicating with extension")]
    /\ UNCHANGED << REQUIRE_AUTH, shared, mainVars, handlerVars, frameVars, listener,
                    readVars, http, handshake, files >>

NextClient ==
    \/ \E outcome \in {"ok", "refused", "timeout", "oserror"} :
           \E line \in BridgeLines : ClientConnect(outcome, line)
    \/ \E outcome \in {"ok", "timeout", "oserror"} : ClientSend(outcome)
    \/ \E outcome \in {"data", "closed", "timeout", "oserror"} :
           \E k \in 0..Len(Rest) : ClientRecv(outcome, k)

SpecClient == Init /\ [][NextClient]_vars

\* ------------------------------------------------- ChromeTabHTTPHandler
\* The HTTP server (chrome_tab_http_server.py): one request, from do_GET or
\* do_POST to the response, and which method of the handler answered it.
Bearer == <<"B", "e", "a", "r", "e", "r", " ">>
HTTP_VALID_TOKENS == { <<"a">>, <<"b">> }

\* A check of the scheme only.
validate_token_scheme(auth_header) == StartsWith(auth_header, Bearer)

\* validate_token, on the value of self.headers.get('Authorization', '')
validate_token(auth_header) ==
    IF ~StartsWith(auth_header, Bearer) THEN FALSE
    ELSE SubSeq(auth_header, 8, Len(auth_header)) \in HTTP_VALID_TOKENS

\* urlparse(self.path).path for the request targets that occur.
UrlPath ==
    ("/" :> "/") @@ ("/?token=a" :> "/") @@ ("/api/current_tab" :> "/api/current_tab")
    @@ ("/api/health" :> "/api/health") @@ ("/api/health?x=/" :> "/api/health")
    @@ ("/api/openapi.json" :> "/api/openapi.json") @@ ("/api/extract" :> "/api/extract")
    @@ ("/api/navigate_and_extract" :> "/api/navigate_and_extract")
    @@ ("/api" :> "/api") @@ ("//" :> "")

\* Values of the Authorization header: none, the two valid tokens, a wrong
\* token, the scheme in lower case, no space, no token, and spaces around
\* the token or before the scheme.
AuthHeaders ==
    { << >>, Bearer \o <<"a">>, Bearer \o <<"b">>, Bearer \o <<"c">>,
      <<"b", "e", "a", "r", "e", "r", " ", "a">>, <<"B", "e", "a", "r", "e", "r", "a">>,
      Bearer, Bearer \o <<" ", "a">>, Bearer \o <<"a", " ">>, <<" ">> \o Bearer \o <<"a">>,
      <<"a">> }

\* Bodies of a POST: none, a JSON object, bytes that are no JSON, a JSON value
\* that is no object, and a Content-Length that is no number.
Bodies == { "empty", "object", "badjson", "nonobject", "bad_length" }

Answer(method, target, auth_header, body, status, ran) ==
    [method |-> method, path |-> target, auth_header |-> auth_header, body |-> body,
     status |-> status, ran |-> ran]

do_GET(target, auth_header) ==
    LET path == UrlPath[target]
        answer(status, ran) == Answer("GET", target, auth_header, "empty", status, ran)
    IN  IF path = "/" THEN answer("200", "send_api_docs")
        ELSE IF ~validate_token(auth_header) THEN answer("401", "send_unauthorized")
        ELSE IF path = "/api/current_tab" THEN answer("handler", "handle_current_tab")
        ELSE IF path = "/api/health" THEN answer("handler", "handle_health")
        ELSE IF path = "/api/openapi.json" THEN answer("handler", "handle_openapi_spec")
        ELSE answer("404", "")

do_POST(target, auth_header, body) ==
    LET path == UrlPath[target]
        answer(status, ran) == Answer("POST", target, auth_header, body, status, ran)
    IN  IF ~validate_token(auth_header) THEN answer("401", "send_unauthorized")
        ELSE IF body = "bad_length" THEN answer("ValueError", "")
        ELSE IF body = "badjson" THEN answer("400", "")
        ELSE IF body = "nonobject" THEN answer("AttributeError", "")
        ELSE IF path = "/api/extract" THEN answer("handler", "handle_extract")
        ELSE IF path = "/api/navigate_and_extract"
             THEN answer("handler", "handle_navigate_and_extract")
        ELSE answer("404", "")

\* The server handles one request.
HttpRequest(method, target, auth_header, body) ==
    /\ method \in {"GET", "POST"}
    /\ method = "GET" => body = "empty"
    /\ http' = IF method = "GET" THEN do_GET(target, auth_header)
               ELSE do_POST(target, auth_header, body)
    /\ UNCHANGED << REQUIRE_AUTH, shared, mainVars, handlerVars, frameVars, listener,
                    readVars, call, handshake, files >>

NextHttp ==
    \E method \in {"GET", "POST"} : \E target \in DOMAIN UrlPath :
        \E auth_header \in AuthHeaders : \E body \in Bodies :
            HttpRequest(method, target, auth_header, body)

SpecHttp == Init /\ [][NextHttp]_vars

\* ------------------------------------------- a client that sends at once
\* One client that writes its lines the way extract_tab_content_via_extension
\* does, the AUTH line if it has a token and then its request, without
\* waiting in between, and the handler of the bridge that serves it. The
\* bytes the client has sent and the bridge has not yet received are on the
\* wire; a recv takes some of them.

\* BRIDGE_AUTH_TOKEN of the client: none, a token the bridge knows, one it
\* does not know.
ClientTokens == { << >>, << "a" >>, << "b" >>, << "c" >>, << "a", "b" >> }

\* request_json = json.dumps(request) + '\n'
RequestLine == << "{", "}", "\n" >>

\* auth_line = f"AUTH {BRIDGE_AUTH_TOKEN}\n", sent only with a token.
AuthLineOf(token) == IF token = << >> THEN << >> ELSE AUTH \o token \o << "\n" >>

\* What the handler answers to a request it forwards or rejects: the
\* extension's response, the timeout error or the not-connected error.
RequestOutcomes ==
    { MessageResponse([kind |-> "object", ridKind |-> "int", rid |-> 1, seq |-> 1]),
      TimeoutError, NotConnectedError }

\* try: request = json.loads(message_data.decode('utf-8'))
\* except json.JSONDecodeError: the line is no JSON.
IsJson(line) == json_loads(Utf8Encode(Str(line))).ok

\* The characters of s before its first line feed: data[:data.index(b'\n')]
BeforeLineFeed(s) ==
    SubSeq(s, 1, (CHOOSE i \in 1..Len(s) : s[i] = "\n" /\ \A j \in 1..(i - 1) : s[j] # "\n") - 1)

\* sock.connect, sock.sendall(auth_line) if BRIDGE_AUTH_TOKEN, and
\* sock.sendall(request_json); the bridge accepts and starts the handler,
\* which calls authenticate_tcp_client.
HandshakeConnect(token) ==
    /\ handshake.client = "idle"
    /\ handshake' = [handshake EXCEPT
           !.client = "waiting",
           !.token = token,
           !.wire = AuthLineOf(token) \o RequestLine,
           !.pc = IF REQUIRE_AUTH THEN "auth" ELSE "read"]
    /\ UNCHANGED << REQUIRE_AUTH, shared, mainVars, handlerVars, frameVars, listener,
                    readVars, call, http, files >>

\* authenticate_tcp_client with REQUIRE_AUTH: chunk = client_socket.recv(1),
\* until a line feed; then the line is tested, and a client that fails is
\* sent the authentication error and closed.
HandshakeAuthRecv ==
    /\ handshake.pc = "auth"
    /\ handshake.wire # << >>
    /\ LET chunk == Head(handshake.wire) IN
       IF chunk # "\n"
       THEN handshake' = [handshake EXCEPT !.wire = Tail(@),
                                           !.auth_line = Append(@, chunk)]
       ELSE IF authenticate_tcp_client(handshake.auth_line)
            THEN handshake' = [handshake EXCEPT !.wire = Tail(@), !.pc = "read"]
            ELSE handshake' = [handshake EXCEPT
                     !.wire = Tail(@),
                     !.pc = "closed",
                     !.out = Append(@, [to |-> << >>, response |-> AuthError])]
    /\ UNCHANGED << REQUIRE_AUTH, shared, mainVars, handlerVars, frameVars, listener,
                    readVars, call, http, files >>

\* The read loop of handle_mcp_client: chunk = client_socket.recv(4096)
\* returns the first k bytes on the wire; with a line feed in data the bytes
\* before it are the request and the rest is left behind; a line that is no
\* JSON is answered with the invalid-JSON error, a request with its outcome,
\* and the handler reads again with data = b''.
HandshakeRecv(k, outcome) ==
    /\ handshake.pc = "read"
    /\ k \in 1..Len(handshake.wire)
    /\ outcome \in RequestOutcomes
    /\ LET dataNow == handshake.data \o SubSeq(handshake.wire, 1, k)
           wire == SubSeq(handshake.wire, k + 1, Len(handshake.wire))
       IN
       IF \A i \in 1..Len(dataNow) : dataNow[i] # "\n"
       THEN handshake' = [handshake EXCEPT !.wire = wire, !.data = dataNow]
       ELSE LET messageData == BeforeLineFeed(dataNow) IN
            handshake' = [handshake EXCEPT
                !.wire = wire,
                !.data = << >>,
                !.out = Append(@, [to |-> messageData,
                                   response |-> IF IsJson(messageData) THEN outcome
                                                ELSE InvalidJsonError])]
    /\ UNCHANGED << REQUIRE_AUTH, shared, mainVars, handlerVars, frameVars, listener,
                    readVars, call, http, files >>

\* The client's recv loop ends with the first line feed: it has the first
\* response line the handler wrote, parses it and closes the socket.
HandshakeResponse ==
    /\ handshake.client = "waiting"
    /\ handshake.out # << >>
    /\ handshake' = [handshake EXCEPT !.client = "done", !.first = << handshake.out[1] >>]
    /\ UNCHANGED << REQUIRE_AUTH, shared, mainVars, handlerVars, frameVars, listener,
                    readVars, call, http, files >>

NextHandshake ==
    \/ \E token \in ClientTokens : HandshakeConnect(token)
    \/ HandshakeAuthRecv
    \/ \E k \in 1..(Len(AUTH) + 2 + Len(RequestLine)) : \E outcome \in RequestOutcomes :
           HandshakeRecv(k, outcome)
    \/ HandshakeResponse

SpecHandshake == Init /\ [][NextHandshake]_vars

\* ------------------------------------------- the manifest of the native host
\* tests/e2e_native_host_manager.py: the calls a test run makes on the
\* manifest file and its backup file.

\* The extension ids the tests add and remove.
TestExtensionIds == { "t", "v" }

\* allowed_origins.remove(test_origin): the list without its first test_origin
RECURSIVE RemoveFirst(_, _)
RemoveFirst(origins, id) ==
    IF origins = << >> THEN << >>
    ELSE IF Head(origins) = id THEN Tail(origins)
    ELSE << Head(origins) >> \o RemoveFirst(Tail(origins), id)

\* test_origin in allowed_origins
HasOrigin(origins, id) == \E i \in 1..Len(origins) : origins[i] = id

\* The user's setup: what is at get_manifest_path() when the test run starts.
get_manifest_path(m) ==
    /\ files.calls = "unknown"
    /\ m \in InstalledManifests
    /\ files' = [files EXCEPT !.manifest = m, !.before = m, !.calls = "none"]
    /\ UNCHANGED << REQUIRE_AUTH, shared, mainVars, handlerVars, frameVars, listener,
                    readVars, call, http, handshake >>

\* backup_manifest(): with no manifest nothing is done; otherwise the manifest
\* is copied to the backup path and the global is set.
backup_manifest ==
    /\ files.calls \in {"none", "open"}
    /\ IF ~files.manifest.exists
       THEN files' = [files EXCEPT !.calls = "open"]
       ELSE files' = [files EXCEPT !.backup = files.manifest,
                                   !.backup_path_to_restore = TRUE,
                                   !.calls = "open"]
    /\ UNCHANGED << REQUIRE_AUTH, shared, mainVars, handlerVars, frameVars, listener,
                    readVars, call, http, handshake >>

\* add_test_extension_id(extension_id): with no manifest, or with the origin
\* in the list already, nothing is written; otherwise the origin is appended
\* and the manifest is written again with json.dump.
add_test_extension_id(extension_id) ==
    /\ files.calls = "open"
    /\ IF ~files.manifest.exists \/ HasOrigin(files.manifest.allowed_origins, extension_id)
       THEN UNCHANGED files
       ELSE files' = [files EXCEPT !.manifest =
                ManifestFile(Append(files.manifest.allowed_origins, extension_id), "json.dump")]
    /\ UNCHANGED << REQUIRE_AUTH, shared, mainVars, handlerVars, frameVars, listener,
                    readVars, call, http, handshake >>

\* remove_test_extension_id(extension_id): the origin is taken out of the
\* list if it is there, and the manifest is written again with json.dump.
remove_test_extension_id(extension_id) ==
    /\ files.calls = "open"
    /\ IF files.manifest.exists /\ HasOrigin(files.manifest.allowed_origins, extension_id)
       THEN files' = [files EXCEPT !.manifest =
                ManifestFile(RemoveFirst(files.manifest.allowed_origins, extension_id),
                             "json.dump")]
       ELSE UNCHANGED files
    /\ UNCHANGED << REQUIRE_AUTH, shared, mainVars, handlerVars, frameVars, listener,
                    readVars, call, http, handshake >>

\* restore_manifest(): with no backup nothing is done; otherwise the backup is
\* copied over the manifest and deleted, and the global is cleared.
restore_manifest ==
    /\ files.calls = "open"
    /\ IF ~files.backup.exists
       THEN files' = [files EXCEPT !.calls = "restored"]
       ELSE files' = [files EXCEPT !.manifest = files.backup,
                                   !.backup = Absent,
                                   !.backup_path_to_restore = FALSE,
                                   !.calls = "restored"]
    /\ UNCHANGED << REQUIRE_AUTH, shared, mainVars, handlerVars, frameVars, listener,
                    readVars, call, http, handshake >>

NextFiles ==
    \/ \E m \in InstalledManifests : get_manifest_path(m)
    \/ backup_manifest
    \/ \E extension_id \in TestExtensionIds : add_test_extension_id(extension_id)
    \/ \E extension_id \in TestExtensionIds : remove_test_extension_id(extension_id)
    \/ restore_manifest

SpecFiles == Init /\ [][NextFiles]_vars

\* ================================================================ claims

\* C1. Correlation: every message in a handler's response queue, and the
\* message a handler takes as the response to its client, carries the
\* request_id that the bridge assigned to that handler's own request (the id
\* in the frame it forwarded); a message for id i never reaches the handler
\* waiting on another id j.
C1_Correlation ==
    \A h \in Handlers :
        pc[h] \in {"wait", "cleanup"} =>
            /\ request[h].request_id = request_id[h]
            /\ \A i \in 1..Len(response_queue[h]) :
                   /\ response_queue[h][i].ridKind = "int"
                   /\ response_queue[h][i].rid = request_id[h]
            /\ response[h].kind = "message" =>
                   /\ response[h].msg.ridKind = "int"
                   /\ response[h].msg.rid = request_id[h]

\* Two handlers have requests in flight at once, the extension answers the
\* later request first, and each handler holds a response.
C1_Witness ==
    \E h, g \in Handlers :
        /\ pc[h] = "cleanup" /\ pc[g] = "cleanup"
        /\ response[h].kind = "message" /\ response[g].kind = "message"
        /\ request_id[h] < request_id[g]
        /\ response[g].msg.seq < response[h].msg.seq

\* Ids forwarded so far: those of the payload chunks on stdout.
ForwardedIds == { stdout[i].of.request_id : i \in 1..Len(stdout) }

\* C2. Request ids are unique and strictly increasing in allocation order:
\* no two handlers hold the same id, no id is forwarded twice, every entry
\* of the pending table belongs to the one handler holding that id, and an
\* id a handler obtains is greater than every id obtained before it (those
\* other handlers hold and those already forwarded).
C2_UniqueIds ==
    /\ [](\A h, g \in Handlers :
             (h # g /\ request_id[h] # 0) => request_id[h] # request_id[g])
    /\ [](\A i, j \in 1..Len(stdout) :
             (stdout[i].part = "payload" /\ stdout[j].part = "payload" /\ i # j)
                 => stdout[i].of.request_id # stdout[j].of.request_id)
    /\ [](\A i \in DOMAIN pending_requests : request_id[pending_requests[i]] = i)
    /\ [][\A h \in Handlers :
             (request_id[h] = 0 /\ request_id'[h] # 0) =>
                 /\ \A g \in Handlers : request_id'[h] > request_id[g]
                 /\ \A i \in ForwardedIds : request_id'[h] > i]_vars

\* Both handlers hold an id at the same time.
C2_Witness ==
    \E h, g \in Handlers : h # g /\ request_id[h] # 0 /\ request_id[g] # 0

\* C3. Fail-fast when disconnected: a handler that reads a request (a JSON
\* object) while the connection flag is false, with its client still there,
\* writes the error response to that client, writes nothing to stdout,
\* leaves the id counter and the pending table unchanged, and is back at
\* reading the next line of the same connection.
C3_FailFast ==
    [][\A h \in Handlers :
          ((\E supplied \in SuppliedIds : ReadLine(h, "object", supplied)) /\ ~extension_connected /\ peerOpen[h]) =>
              /\ sock'[h] = Append(sock[h], NotConnectedError)
              /\ \A g \in Handlers \ {h} : sock'[g] = sock[g]
              /\ pc'[h] = "read"
              /\ stdout' = stdout
              /\ request_counter' = request_counter
              /\ pending_requests' = pending_requests]_vars

\* A client was told that the extension is not connected, no id was
\* allocated, and the handler served the next line of that connection.
C3_Witness ==
    \E h \in Handlers :
        /\ Len(sock[h]) = 2
        /\ sock[h][1] = NotConnectedError
        /\ pc[h] = "read"
        /\ request_counter = 0

\* The handler wrote the timeout error as its latest response and is back
\* at reading.
TimeoutWritten(h) ==
    /\ pc[h] = "read"
    /\ sock[h] # << >>
    /\ sock[h][Len(sock[h])] = TimeoutError

\* C4. Timeout: a handler waiting for a response that has not come does not
\* hang: unless the extension answers after all, the client goes away or the
\* process exits, it writes the timeout error to its client; it takes the
\* timeout error only once the whole timeout has elapsed, and a handler that
\* leaves the wait with nothing in its queue leaves it with the timeout error.
C4_Timeout ==
    /\ [](\A h \in Handlers :
             (pc[h] = "cleanup" /\ response[h] = TimeoutError)
                 => elapsed[h] >= TimeoutTicks)
    /\ [](\A h \in Handlers :
             (pc[h] = "cleanup" /\ response_queue[h] = << >>)
                 => response[h] = TimeoutError)
    /\ \A h \in Handlers :
           (pc[h] = "wait" /\ response_queue[h] = << >>)
               ~> \/ TimeoutWritten(h)
                  \/ response_queue[h] # << >>
                  \/ ~peerOpen[h]
                  \/ mainPc = "exited"

\* A request the extension never answered: the handler wrote the timeout
\* error to its client while the extension was connected and had sent nothing.
C4_Witness ==
    \E h \in Handlers :
        /\ TimeoutWritten(h)
        /\ response_queue[h] = << >>
        /\ extension_connected
        /\ frames = 0

\* C5. Late response: a response whose id has no slot any more, at the read
\* loop's lookup or at its append, is dropped: no client's queue or socket
\* changes, the read loop goes on reading and the connection flag stays true.
C5_LateResponse ==
    [][ /\ (mainPc = "append" /\ mainPc' # "append" /\ ~InPending(message))
            => /\ mainPc' = "read"
               /\ extension_connected'
               /\ response_queue' = response_queue
               /\ sock' = sock
               /\ pending_requests' = pending_requests
        /\ \A input \in ExtFrames(frames + 1) :
              ( /\ LoopReadFrame(input)
                /\ input.kind = "object" /\ input.ridKind = "int"
                /\ input.rid \in ForwardedIds
                /\ ~InPending(input) )
              => /\ mainPc' = "read"
                 /\ extension_connected'
                 /\ response_queue' = response_queue
                 /\ sock' = sock
                 /\ pending_requests' = pending_requests ]_vars

\* C6. Write serialization: on stdout every length prefix is immediately
\* followed by the payload of the same message, and every payload comes right
\* after its own length prefix.
C6_WriteSerialization ==
    \A i \in 1..Len(stdout) :
        /\ (stdout[i].part = "length" /\ i < Len(stdout))
               => stdout[i + 1] = Chunk("payload", stdout[i].of)
        /\ stdout[i].part = "payload"
               => (i > 1 /\ stdout[i - 1] = Chunk("length", stdout[i].of))

\* `line` is exactly AUTH, a space and a configured token.
ExactHandshake(line) == \E t \in VALID_TOKENS : line = AUTH \o t

\* `line` is valid UTF-8 and, with the whitespace at its ends removed, is
\* exactly AUTH, a space and a configured token.
LooseHandshake(line) == ValidUtf8(line) /\ ExactHandshake(Strip(line))

\* C7. Authentication failure: with REQUIRE_AUTH on, a connection whose first
\* line is absent, malformed or carries a token outside VALID_TOKENS gets the
\* one error object (if it is still there to get it) and is closed: none of
\* its lines is read, no frame on stdout is its, it holds no id and no slot.
C7_AuthFailure ==
    \A h \in Handlers :
        (REQUIRE_AUTH /\ pc[h] # "idle" /\ ~LooseHandshake(auth_line[h]))
            => /\ pc[h] = "closed"
               /\ sock[h] = (IF peerOpen[h] THEN << AuthError >> ELSE << >>)
               /\ lines[h] = 0
               /\ request_id[h] = 0
               /\ \A i \in 1..Len(stdout) : stdout[i].of.client # h
               /\ \A i \in DOMAIN pending_requests : pending_requests[i] # h

\* A connection with a wrong token got its error and was closed while another
\* connection had a request forwarded.
C7_Witness ==
    \E h \in Handlers :
        /\ REQUIRE_AUTH
        /\ auth_line[h] = AUTH \o <<"c">>
        /\ pc[h] = "closed"
        /\ sock[h] = << AuthError >>
        /\ request_counter > 0
        /\ stdout # << >>

C9_MalformedLine ==
    [][ \A h \in Handlers : \A kind \in {"badjson", "badutf8"} :
          ((\E supplied \in SuppliedIds : ReadLine(h, kind, supplied)) /\ peerOpen[h])
              => /\ Len(sock'[h]) = Len(sock[h]) + 1
                 /\ sock'[h][Len(sock'[h])].kind = "error"
                 /\ \A g \in Handlers \ {h} : sock'[g] = sock[g]
                 /\ pc'[h] = "read"
                 /\ stdout' = stdout
                 /\ request_counter' = request_counter
                 /\ pending_requests' = pending_requests ]_vars

\* C10. Malformed stdio frame: a complete frame whose payload is not valid
\* JSON does not set the connection flag false and does not end the read loop.
C10_MalformedFrame ==
    [][ \A input \in ExtFrames(frames + 1) :
          (input.kind = "badjson" /\ LoopReadFrame(input))
              => /\ extension_connected' = extension_connected
                 /\ mainPc' = "read" ]_vars

\* C11. Unsolicited messages: a frame that decodes to a JSON value, whatever
\* the value and whatever its request_id field, and that names no live pending
\* request is dropped: the pending table and every client's queue and socket
\* are unchanged, the read loop stays at reading and the flag stays true.
C11_Unsolicited ==
    [][ \A input \in ExtFrames(frames + 1) :
          ( /\ LoopReadFrame(input)
            /\ input.kind \in {"null", "nonobject", "object"}
            /\ ~InPending(input) )
          => /\ mainPc' = "read"
             /\ extension_connected'
             /\ pending_requests' = pending_requests
             /\ response_queue' = response_queue
             /\ sock' = sock ]_vars

\* The read from stdin returned "no message" in this step: end of file, or a
\* frame read_message turns into None.
ReadNoMessage ==
    \/ LoopEOF
    \/ \E input \in ExtFrames(frames + 1) :
           LoopReadFrame(input) /\ read_message(input) = NoMessage

\* C12. Exit on disconnect: at end of file on stdin the flag is set false and
\* the read loop ends, whatever the handlers are doing; the read loop ends
\* only in a step in which the read returned "no message", and the process
\* exits only after the read loop has ended.
C12_ExitOnDisconnect ==
    [][ /\ LoopEOF => (~extension_connected' /\ mainPc' = "stopped")
        /\ (mainPc # "stopped" /\ mainPc' = "stopped") => ReadNoMessage
        /\ (mainPc # "exited" /\ mainPc' = "exited") => mainPc = "stopped" ]_vars

\* The slots of the pending table that belong to handler h.
SlotsOf(h) == { i \in DOMAIN pending_requests : pending_requests[i] = h }

\* C13. Per-connection sequencing: a handler at the point of reading a line
\* has written one response for every line it read before; a connection has
\* at most one slot in the pending table; and the k-th thing written to a
\* client that is the extension's answer answers the k-th line of that client.
C13_Sequencing ==
    \A h \in Handlers :
        /\ Cardinality(SlotsOf(h)) <= 1
        /\ pc[h] = "read" => Len(sock[h]) = lines[h]
        /\ pc[h] \in {"lock", "getid", "register", "send_length", "send_payload",
                      "wait", "cleanup"}
              => (Len(sock[h]) = lines[h] - 1 /\ request[h].n = lines[h])
        /\ \A k \in 1..Len(sock[h]) :
              sock[h][k].kind = "message"
                 => \E i \in 1..Len(stdout) :
                       /\ stdout[i].of.client = h
                       /\ stdout[i].of.n = k
                       /\ stdout[i].of.request_id = sock[h][k].msg.rid

\* One connection sent two requests and got the extension's answer to each.
C13_Witness ==
    \E h \in Handlers :
        /\ lines[h] = 2
        /\ Len(sock[h]) = 2
        /\ sock[h][1].kind = "message"
        /\ sock[h][2].kind = "message"
        /\ sock[h][1].msg.rid < sock[h][2].msg.rid

\* C14. Slot removal: the pending table holds only ids of requests whose
\* handler is between registering and cleaning up, under that handler's own
\* id; once the response to a request has been written (or the handler is
\* back at reading, or gone), the table does not contain the request's id.
C14_SlotRemoval ==
    /\ \A i \in DOMAIN pending_requests :
          /\ pc[pending_requests[i]] \in {"send_length", "send_payload", "wait", "cleanup"}
          /\ request_id[pending_requests[i]] = i
    /\ \A h \in Handlers : \A i \in 1..Len(stdout) :
          (stdout[i].of.client = h /\ stdout[i].of.n <= Len(sock[h]))
              => stdout[i].of.request_id \notin DOMAIN pending_requests

\* One wait ended with the timeout error and one with the extension's answer,
\* both responses are written and the table is empty.
C14_Witness ==
    \E h, g \in Handlers : \E k \in 1..MaxLines : \E j \in 1..MaxLines :
        /\ k <= Len(sock[h]) /\ sock[h][k] = TimeoutError
        /\ j <= Len(sock[g]) /\ sock[g][j].kind = "message"
        /\ request_counter = 2
        /\ pending_requests = << >>
        /\ mainPc = "read"

RECURSIVE FrameStart(_)
\* The number of bytes written to the pipe before the j-th frame.
FrameStart(j) == IF j = 1 THEN 0 ELSE FrameStart(j - 1) + Len(sent[j - 1].bytes)

\* C16. Round-trip framing: a call of read_message that starts at the first
\* byte of a frame that send_message(m) wrote, and that is whole in the pipe,
\* returns a message equal to m and takes exactly the bytes of that frame.
C16_RoundTrip ==
    \A i \in 1..Len(received) : \A j \in 1..Len(sent) :
        ( /\ sent[j].by = "send_message"
          /\ received[i].from = FrameStart(j)
          /\ FrameStart(j) + Len(sent[j].bytes) <= Len(pipe) )
        => /\ received[i].kind = "message"
           /\ received[i].m = sent[j].m
           /\ received[i].taken = Len(sent[j].bytes)

\* Two different messages, one with a character outside ASCII and a quote in
\* it and one longer than a chunk, went through send_message and were read
\* back one after the other.
C16_Witness ==
    /\ Len(sent) = 2 /\ Len(received) = 2
    /\ sent[1].by = "send_message" /\ sent[2].by = "send_message"
    /\ \E f \in 1..Len(sent[1].m) : sent[1].m[f].s = Str(<<"é", "\"">>)
    /\ sent[2].m = << StrField(Str(<<"a">>), LongString) >>
    /\ received[1].m = sent[1].m
    /\ received[2].m = sent[2].m
    /\ consumed = Len(pipe)

\* The unsigned integer that four bytes encode in little-endian order.
LittleEndian(raw) == raw[1] + 256 * raw[2] + 65536 * raw[3] + 16777216 * raw[4]

\* C17. Frame length prefix: a frame written by send_message(m) is four bytes
\* that encode, little-endian, the number of bytes of the UTF-8 JSON of m,
\* then exactly those bytes and nothing after them; and read_message, at the
\* head of a frame that is whole in the pipe, takes the four bytes and as many
\* bytes as they encode little-endian.
C17_LengthPrefix ==
    \A j \in 1..Len(sent) :
        /\ sent[j].by = "send_message"
              => /\ Len(sent[j].bytes) >= 4
                 /\ LittleEndian(SubSeq(sent[j].bytes, 1, 4)) = Len(sent[j].bytes) - 4
                 /\ SubSeq(sent[j].bytes, 5, Len(sent[j].bytes))
                        = Utf8Encode(json_dumps(sent[j].m))
        /\ \A i \in 1..Len(received) :
              (received[i].from = FrameStart(j)
                  /\ FrameStart(j) + Len(sent[j].bytes) <= Len(pipe))
              => received[i].taken = 4 + LittleEndian(SubSeq(sent[j].bytes, 1, 4))

\* The bytes of the pipe from the place where the i-th read started.
ReadFrom(i) == SubSeq(pipe, received[i].from + 1, Len(pipe))

\* The payload length that the first four bytes of `avail` announce.
Announced(avail) == unpack(SubSeq(avail, 1, 4))

\* C18. Short reads: a read that finds fewer than 4 bytes before the end of
\* the stream returns None; a read that finds the stream ended before the
\* announced number of payload bytes returns None; and a message that a read
\* returns is the parse of exactly the announced number of bytes.
C18_ShortReads ==
    \A i \in 1..Len(received) :
        /\ (eof /\ Len(ReadFrom(i)) < 4) => received[i].kind = "none"
        /\ (Len(ReadFrom(i)) >= 4 /\ Len(ReadFrom(i)) - 4 < Announced(ReadFrom(i)))
              => received[i].kind = "none"
        /\ received[i].kind = "message"
              => /\ Len(ReadFrom(i)) >= 4 + Announced(ReadFrom(i))
                 /\ received[i].taken = 4 + Announced(ReadFrom(i))
                 /\ json_loads(SubSeq(ReadFrom(i), 5, 4 + Announced(ReadFrom(i))))
                        = [ok |-> TRUE, m |-> received[i].m]

\* The stream ended one byte before the end of a payload whose bytes up to
\* there are JSON on their own, and the read returned None.
C18_Witness ==
    /\ eof
    /\ \E i \in 1..Len(received) :
          /\ received[i].kind = "none"
          /\ Len(ReadFrom(i)) >= 4
          /\ Len(ReadFrom(i)) - 4 = Announced(ReadFrom(i)) - 1
          /\ json_loads(SubSeq(ReadFrom(i), 5, Len(ReadFrom(i)))).ok

\* The client of handler g has been written the extension's answer to id r.
Answered(g, r) ==
    \E k \in 1..Len(sock[g]) : sock[g][k].kind = "message" /\ sock[g][k].msg.rid = r

\* The read loop holds a message with the id of a request that a connection
\* other than g's forwarded.
HoldsAnswerForOther(g) ==
    /\ mainPc = "append"
    /\ \E i \in 1..Len(stdout) :
          stdout[i].of.request_id = message.rid /\ stdout[i].of.client # g

\* C19. No slow peer blocks another: while a handler waits for the answer to
\* its request, nothing another connection does (sending nothing, waiting,
\* timing out) takes the read loop out of service: a read loop that holds
\* the answer to another connection's request goes on to read the next frame.
C19_NoSlowPeerBlocks ==
    [][ \A g \in Handlers :
          ( /\ pc[g] = "wait" /\ request_id[g] \in DOMAIN pending_requests
            /\ HoldsAnswerForOther(g) )
          => mainPc' \in {"read", "append"} ]_vars

\* What holds of the threads as long as the process lives: whatever the
\* other clients do or fail to do, (1) a handler that is idle, reading,
\* waiting or responding holds no lock; (2) a handler that has read a request
\* gets it forwarded and comes to wait for the answer; (3) the read loop at
\* its read can take the next frame; and (4) an answer the read loop has
\* matched to the request of a waiting handler is written to that handler's
\* client, unless that request's own timeout expires first, its client has
\* gone or the process exits.
ThreadsIndependent ==
    /\ [](\A h \in Handlers : request_lock = h => pc[h] = "getid")
    /\ [](mainPc = "read" /\ frames < MaxFrames => ENABLED LoopRead)
    /\ \A g \in Handlers :
          (pc[g] = "lock") ~> (pc[g] = "wait" \/ mainPc = "exited")
    /\ \A g \in Handlers : \A r \in Ids :
          (mainPc = "append" /\ message.rid = r /\ pc[g] = "wait" /\ request_id[g] = r)
              ~> \/ Answered(g, r)
                 \/ elapsed[g] >= TimeoutTicks
                 \/ ~peerOpen[g]
                 \/ mainPc = "exited"

\* One client's request is still waiting, unanswered, while the request a
\* second client sent after it has been answered and written.
ThreadsIndependentWitness ==
    \E h, g \in Handlers :
        /\ h # g
        /\ pc[h] = "wait" /\ response_queue[h] = << >>
        /\ request_id[h] = 1
        /\ Answered(g, 2)
        /\ mainPc = "read"

\* C20. Failure isolation: a step in which the handling of one connection
\* ends (an error caught at the boundary, a failed send, a close) closes that
\* connection only: every other handler keeps its position, its socket, its
\* request, its id, its queue and its response, every slot of another
\* connection stays in the pending table, and the connection flag, the lock
\* and the read loop are unchanged.
C20_FailureIsolation ==
    [][ \A h \in Handlers :
          (pc[h] \notin {"closed", "idle"} /\ pc'[h] = "closed")
          => /\ \A g \in Handlers \ {h} :
                   /\ pc'[g] = pc[g] /\ sock'[g] = sock[g]
                   /\ request'[g] = request[g] /\ request_id'[g] = request_id[g]
                   /\ response_queue'[g] = response_queue[g]
                   /\ response'[g] = response[g]
             /\ \A i \in DOMAIN pending_requests :
                   pending_requests[i] # h
                      => (i \in DOMAIN pending_requests'
                             /\ pending_requests'[i] = pending_requests[i])
             /\ extension_connected' = extension_connected
             /\ request_lock' = request_lock
             /\ mainPc' = mainPc /\ message' = message /\ frames' = frames ]_vars

\* One connection was closed on an error (a line that is no UTF-8, or a
\* response that could not be sent) while the other waits on its slot and the
\* read loop runs.
C20_Witness ==
    \E h, g \in Handlers :
        /\ h # g
        /\ pc[h] = "closed" /\ lines[h] > 0
        /\ pc[g] = "wait" /\ request_id[g] \in DOMAIN pending_requests
        /\ extension_connected /\ mainPc = "read"

\* The listener thread has returned because bind raised OSError.
BindFailed == listener \in {"in_use", "failed"}

\* What holds of a failed bind: the listener returns, so no connection is ever
\* accepted; the step changes nothing of the main thread and the process does
\* not exit for it; the read loop still starts and sets the flag true; it
\* goes on over the JSON objects the extension sends, and the process exits
\* only after the read loop has ended.
ListenerReturns ==
    /\ [](BindFailed => \A h \in Handlers : pc[h] = "idle" /\ sock[h] = << >>)
    /\ [][ (listener = "starting" /\ listener' \in {"in_use", "failed"})
              => /\ mainPc' = mainPc /\ mainPc' # "exited"
                 /\ extension_connected' = extension_connected ]_vars
    /\ [][ BindFailed =>
              /\ (mainPc = "start" /\ mainPc' # "start")
                    => (mainPc' = "read" /\ extension_connected')
              /\ \A input \in ExtFrames(frames + 1) :
                    (input.kind = "object" /\ input.ridKind # "list"
                        /\ LoopReadFrame(input))
                    => (mainPc' = "read" /\ extension_connected')
              /\ (mainPc' = "exited" /\ mainPc # "exited") => mainPc = "stopped" ]_vars
    /\ (BindFailed /\ mainPc = "start") ~> (mainPc = "read" /\ extension_connected)

\* C21. Bind failure: when bind fails the listener returns without accepting
\* a connection and without ending the process; the read loop still starts,
\* sets the flag true and runs until the stdio peer disconnects: it stops
\* only on end of file.
C21_BindFailure ==
    /\ ListenerReturns
    /\ [][ (BindFailed /\ mainPc = "read" /\ mainPc' = "stopped") => LoopEOF ]_vars

\* The port was in use, and the read loop has started and has read every
\* frame the extension wrote.
C21_Witness ==
    /\ listener = "in_use"
    /\ mainPc = "read"
    /\ extension_connected
    /\ frames = MaxFrames

\* The handler has forwarded its request and has not answered its client yet.
Forwarded(h) == pc[h] \in {"wait", "cleanup"}

\* C22. Id injection: the frame forwarded for a request is the object parsed
\* from the client's line with request_id set to the id allocated for it,
\* whatever request_id the client supplied, and every other field as the
\* client sent it; the id is on no other frame, and no other frame is
\* forwarded for that line.
C22_IdInjection ==
    \A h \in Handlers :
        Forwarded(h) =>
            LET frame == [message_data[h] EXCEPT !.request_id = request_id[h]] IN
            /\ request_id[h] \in 1..request_counter
            /\ \E i \in 1..Len(stdout) :
                   /\ stdout[i] = Chunk("payload", frame)
                   /\ \A j \in 1..Len(stdout) :
                          (/\ stdout[j].part = "payload"
                           /\ \/ stdout[j].of.request_id = request_id[h]
                              \/ /\ stdout[j].of.client = h
                                 /\ stdout[j].of.n = message_data[h].n)
                          => j = i

\* A client supplied the request_id 2 in the first request of the run, which
\* was forwarded with the id 1; a second request was forwarded after it.
C22_Witness ==
    \E h, g \in Handlers :
        /\ Forwarded(h)
        /\ message_data[h].request_id = 2
        /\ request_id[h] = 1
        /\ Forwarded(g)
        /\ request_id[g] = 2

\* The line without its last byte.
Front(line) == SubSeq(line, 1, Len(line) - 1)

C24_BoundedRead ==
    \A h \in Handlers :
        pc[h] \in {"auth", "read"} => blocked[h] <= TimeoutTicks

\* The part of the contract that holds: the call ends with an object, the
\* error object for a failed connect, a timeout, another socket error, an
\* empty response and a response that does not parse; and what it returns as
\* the bridge's response is the object the bridge wrote.
ErrorCases ==
    call.pc = "done" =>
        /\ call.result.status \in {"error", "returned"}
        /\ call.failure # "none" => call.result.status = "error"
        /\ call.response_data = << >> => call.result.status = "error"
        /\ ~json_loads(StripBytes(call.response_data)).ok => call.result.status = "error"
        /\ call.result.status = "returned" =>
               call.result.response \in ClientResponses \cup Messages

\* C25. Bridge client error contract: the call never raises; it returns an
\* error object when the connect fails, a socket operation times out or
\* fails, the response is empty or does not parse; otherwise, with a response
\* that parses, it returns that response object unchanged.
C25_ErrorContract ==
    /\ ErrorCases
    /\ ( /\ call.pc = "done"
         /\ call.failure = "none"
         /\ call.response_data # << >>
         /\ json_loads(StripBytes(call.response_data)).ok )
       => call.result = Returned(json_loads(StripBytes(call.response_data)).m)

\* The methods that answer an endpoint: the extractions, the tab query, the
\* health check and the OpenAPI document.
EndpointHandlers ==
    { "handle_current_tab", "handle_health", "handle_openapi_spec", "handle_extract",
      "handle_navigate_and_extract" }

LoopStep == mainPc' # mainPc \/ frames' # frames

\* C27. The connection flag is written only by the stdio read loop: it is
\* false before the loop, true from the entry of the loop on, and false when
\* the loop has ended, on end of file or on a failed read; every step that
\* changes it is a step of the read loop, which leaves the handlers and the
\* listener as they are, and no step of a handler or of the listener changes it.
C27_FlagWriter ==
    /\ [](mainPc = "start" => ~extension_connected)
    /\ [](mainPc \in {"read", "append"} => extension_connected)
    /\ [](mainPc \in {"stopped", "exited"} => ~extension_connected)
    /\ [][ extension_connected' # extension_connected
              => /\ LoopStep
                 /\ UNCHANGED handlerVars
                 /\ UNCHANGED listener ]_vars
    /\ [][ (handlerVars' # handlerVars \/ listener' # listener)
              => extension_connected' = extension_connected ]_vars
    /\ [][ (LoopEOF \/ LoopReadFrame([EndOfFile EXCEPT !.kind = "badjson", !.seq = frames + 1]))
              => ~extension_connected' ]_vars

\* The flag is false again after the end of file, with a listener that had
\* bound its port and a handler that had answered a client in between.
C27_Witness ==
    /\ mainPc = "stopped"
    /\ ~extension_connected
    /\ frames = 0
    /\ listener = "listening"
    /\ \E h \in Handlers : sock[h] # << >> /\ pc[h] = "read"

\* The read loop has ended: the session is disconnected for good.
Ended == mainPc \in {"stopped", "exited"}

\* C28. Session states: the flag goes from false to true only at the entry of
\* the read loop, which happens once; when the loop has ended the flag is
\* false and stays false, the loop is not entered again, no frame is read any
\* more, and the only step left to the main thread is the exit of the process.
C28_SessionStates ==
    /\ [][ (~extension_connected /\ extension_connected')
              => (mainPc = "start" /\ frames = 0) ]_vars
    /\ [][ Ended => /\ Ended'
                    /\ ~extension_connected'
                    /\ frames' = frames
                    /\ ~ENABLED LoopEnter
                    /\ mainPc' # mainPc => mainPc' = "exited" ]_vars

\* The extension was connected, a frame was read, the session ended and the
\* process has exited with the flag false.
C28_Witness ==
    /\ mainPc = "exited"
    /\ ~extension_connected
    /\ frames > 0

\* C29. Lock discipline: a handler increments the id counter, inserts its
\* slot and removes its slot only while it holds request_lock, and a message
\* is delivered into a slot only while the delivering task holds it.
C29_LockDiscipline ==
    [][ mainPc' # "exited" =>
          /\ \A h \in Handlers :
                /\ (pc'[h] # pc[h] /\ request_counter' # request_counter)
                       => (request_lock = h \/ request_lock' = h)
                /\ (pc'[h] # pc[h] /\ pending_requests' # pending_requests)
                       => (request_lock = h \/ request_lock' = h)
          /\ (mainPc' # mainPc /\ response_queue' # response_queue)
                 => request_lock \notin Handlers \cup {0} ]_vars

\* The request with this id was answered with the timeout error.
TimedOut(rid) ==
    \E h \in Handlers : \E i \in 1..Len(stdout) :
        /\ stdout[i].part = "payload"
        /\ stdout[i].of.request_id = rid
        /\ stdout[i].of.client = h
        /\ stdout[i].of.n <= Len(sock[h])
        /\ sock[h][stdout[i].of.n] = TimeoutError

\* The steps of a timeout touch the request that timed out only: the handler
\* that takes the timeout error and then cleans up removes its own slot and
\* writes to its own client, and every other handler keeps its position, its
\* socket, its clock, its queue and its slot.
TimeoutStepsIsolated ==
    [][ \A h \in Handlers :
          ( \/ (pc[h] = "wait" /\ pc'[h] = "cleanup" /\ response'[h] = TimeoutError)
            \/ (pc[h] = "cleanup" /\ pc'[h] # "cleanup" /\ response[h] = TimeoutError
                  /\ mainPc' # "exited") )
          => /\ \A g \in Handlers \ {h} :
                   /\ pc'[g] = pc[g] /\ sock'[g] = sock[g] /\ elapsed'[g] = elapsed[g]
                   /\ response_queue'[g] = response_queue[g]
                   /\ response'[g] = response[g]
             /\ \A i \in DOMAIN pending_requests :
                   i # request_id[h]
                      => (i \in DOMAIN pending_requests'
                             /\ pending_requests'[i] = pending_requests[i])
             /\ pc[h] = "cleanup" =>
                   /\ request_id[h] \notin DOMAIN pending_requests'
                   /\ sock'[h] \in {sock[h], Append(sock[h], TimeoutError)} ]_vars

\* C30. Timeout isolation: the expiry of the timeout of request i removes the
\* slot of i only and writes the error to the client of i only, and it leaves
\* the wait and the eventual response of every other request j as they were:
\* while j waits, the read loop that is to deliver the response of j does not
\* end over a request that timed out.
C30_TimeoutIsolation ==
    /\ TimeoutStepsIsolated
    /\ [][ \A g \in Handlers :
              (pc[g] = "wait" /\ mainPc = "append" /\ TimedOut(message.rid))
                  => mainPc' # "stopped" ]_vars

\* The number of line feeds in a sequence of characters.
LineFeeds(s) == Cardinality({ i \in 1..Len(s) : s[i] = "\n" })

\* What follows the last line feed of a sequence of characters.
AfterLastLineFeed(s) ==
    IF LineFeeds(s) = 0 THEN s
    ELSE LET last == CHOOSE i \in 1..Len(s) :
                         s[i] = "\n" /\ \A j \in (i + 1)..Len(s) : s[j] # "\n"
         IN  SubSeq(s, last + 1, Len(s))

\* C31. Line framing on the TCP side: whatever a recv returns, the handler
\* takes as many request lines as there are line feeds in the bytes it holds,
\* and the bytes after the last line feed stay with it for the next line.
C31_LineFraming ==
    [][ \A h \in Handlers : \A chunk \in RequestChunks :
          RecvChunk(h, chunk) =>
              /\ lines'[h] = lines[h] + LineFeeds(data[h] \o chunk)
              /\ data'[h] = AfterLastLineFeed(data[h] \o chunk) ]_vars

\* The number of bytes of a line that are line feeds.
LineFeedBytes(b) == Cardinality({ i \in 1..Len(b) : b[i] = 10 })

\* C32. Round-trip lines: the bytes written for a message m are JSON of m
\* followed by the only line feed among them; a reader that receives them,
\* in one piece or byte by byte, holds exactly the line when it stops, and
\* the line up to its line feed, parsed, is a message equal to m, for the
\* reader of the bridge and for the reader of its client.
C32_RoundTripLines ==
    \A m \in ClientResponses \cup Messages :
        (call.pc = "done" /\ call.failure = "none" /\ call.line = write_line(m))
        => /\ LineFeedBytes(call.line) = 1
           /\ call.line[Len(call.line)] = 10
           /\ call.response_data = call.line
           /\ json_loads(read_line(call.response_data)) = [ok |-> TRUE, m |-> m]
           /\ json_loads(StripBytes(call.response_data)) = [ok |-> TRUE, m |-> m]

\* A response with a line feed inside its content string was written as one
\* line, received by the client, and read back whole.
C32_Witness ==
    /\ call.pc = "done"
    /\ call.failure = "none"
    /\ call.line = write_line(<< StrField(StatusKey, Str(<<"x">>)),
                                 StrField(Content, Str(<<"x", "\n">>)) >>)
    /\ call.response_data = call.line
    /\ call.result.status = "returned"

\* C33. Accepted delivery reaches the client: a handler whose slot was still
\* in the table when the read loop appended a message to it leaves its wait
\* loop with that message, never with the timeout error, however the append
\* and the end of the timeout interleave.
C33_AcceptedDelivery ==
    \A h \in Handlers :
        (pc[h] = "cleanup" /\ request_id[h] \in DOMAIN pending_requests
            /\ response_queue[h] # << >>)
        => response[h] = MessageResponse(FirstResponse(h))

\* C34. No forwarding after disconnect: once extension_connected is false,
\* no step allocates a request id and no step writes to the extension's
\* pipe, however a handler's test of the flag and the read loop's
\* disconnect interleave.
C34_NoForwardAfterDisconnect ==
    [][ ~extension_connected
            => /\ request_counter' = request_counter
               /\ stdout' = stdout ]_vars

\* The response lines a handler has written for request lines: everything it
\* sent but the refusal of the handshake.
RequestResponses(h) == SelectSeq(sock[h], LAMBDA r : r # AuthError)

\* An extension response, or one of the three errors the handler builds for a
\* request line.
ListedResponse(r) ==
    \/ r.kind = "message"
    \/ r \in {TimeoutError, NotConnectedError, InvalidJsonError}

\* The responses written are one behind the lines read while a line is being
\* handled, and level with them when the handler is back at its read or has
\* ended with its client still there.
OneResponsePerLine ==
    \A h \in Handlers :
        LET n == Len(RequestResponses(h)) IN
        /\ n \in {lines[h] - 1, lines[h]}
        /\ pc[h] = "read" => n = lines[h]
        /\ (pc[h] = "closed" /\ peerOpen[h]) => n = lines[h]

\* C35. Exactly one response per request: every line a handler has read is
\* answered by one response line, never none and never two, before the next
\* line is read, and that line is the extension's response, the timeout
\* error, the not-connected error or the invalid-JSON error.
C35_OneResponse ==
    /\ OneResponsePerLine
    /\ \A h \in Handlers : \A i \in 1..Len(RequestResponses(h)) :
           ListedResponse(RequestResponses(h)[i])

\* The request frames written whole to the pipe, in order.
PayloadFrames == SelectSeq(stdout, LAMBDA c : c.part = "payload")

\* The handlers that hold an id whose frame is not yet written.
Allocating == { h \in Handlers : pc[h] \in {"getid", "register", "send_length", "send_payload"} }

\* The id such a handler holds: the counter it is about to read under the
\* lock, or the id it has read.
HeldId(h) == IF pc[h] = "getid" THEN request_counter ELSE request_id[h]

RunningHandlers == { h \in Handlers : pc[h] \notin {"idle", "closed", "killed"} }

\* The entries of the table that belong to a handler.
EntriesOf(h) == { i \in DOMAIN pending_requests : pending_requests[i] = h }

\* C37. Live entries are bounded by the running handlers: the table never
\* holds more entries than there are handler threads running, a handler owns
\* at most one entry, and a handler that is about to read its next request,
\* or has returned, owns none.
C37_LiveEntriesBounded ==
    /\ Cardinality(DOMAIN pending_requests) <= Cardinality(RunningHandlers)
    /\ \A h \in Handlers :
          /\ Cardinality(EntriesOf(h)) <= 1
          /\ pc[h] \in {"idle", "read", "closed", "killed"} => EntriesOf(h) = {}

\* Every handler of the model is running and each has its entry in the table:
\* the bound is met.
C37_Witness ==
    /\ RunningHandlers = Handlers
    /\ \A h \in Handlers : Cardinality(EntriesOf(h)) = 1
    /\ Cardinality(DOMAIN pending_requests) = NumClients

\* C38. Handshake compatibility with authentication off: a client that sent
\* an AUTH line and then its request to a bridge without REQUIRE_AUTH reads,
\* as its first response line, the response to its request.
C38_HandshakeCompatible ==
    (/\ ~REQUIRE_AUTH
     /\ handshake.token # << >>
     /\ handshake.client = "done")
    => /\ handshake.first[1].to = BeforeLineFeed(RequestLine)
       /\ handshake.first[1].response \in RequestOutcomes

\* C39. Manifest backup and restore: after calls that began with
\* backup_manifest, went on with backup_manifest, add_test_extension_id and
\* remove_test_extension_id in any number and order, and ended with
\* restore_manifest, the manifest file is what it was before the first call
\* and there is no backup file.
C39_BackupRestore ==
    files.calls = "restored"
    => /\ files.manifest = files.before
       /\ ~files.backup.exists

\* The handshake on its own: authentication is required, every shape of first
\* line is tried, and the clients go on to send request lines.
AcceptAny(h) == AcceptWith(h, AuthLines)

InitAuth == Init /\ REQUIRE_AUTH

NextAuth ==
    \/ \E result \in {"listening", "in_use", "failed"} : Bind(result)
    \/ \E h \in Handlers : AcceptAny(h)
    \/ \E h \in Handlers : \E kind \in LineKinds : \E supplied \in SuppliedIds :
           ReadLine(h, kind, supplied)
    \/ \E h \in Handlers : ReadEOF(h)
    \/ \E h \in Handlers : PeerClose(h)

SpecAuth == InitAuth /\ [][NextAuth]_vars

====
